---- MODULE Spec2Model ----
(***************************************************************************)
(* Model of mdmi-cli: the SysEx message generator, the dump-response       *)
(* decoders, the preset file codecs and the send / wait / resolve commands *)
(* (dump-preset, dump-channel, ping).                                      *)
(*                                                                         *)
(* Byte strings are sequences of integers; Python's 0-based index i is     *)
(* position i + 1 of the sequence.  A call of a pure function is recorded  *)
(* in `call` and its outcome (a value or the exception raised) in `ret`.   *)
(***************************************************************************)
EXTENDS Integers, Sequences, FiniteSets, TLC

VARIABLES
    call,           \* the function applied last and its arguments
    ret,            \* what that call returned or raised
    pc,             \* where the running command is
    cmd,            \* the command invoked and its options
    iface,          \* the transport the command obtained
    inbox,          \* messages pending on the MIDI input port
    events,         \* the transport calls made so far, in order
    response,       \* what wait_for_sysex returned
    parsed,         \* what the response decoder returned or raised
    output,         \* the lines echoed so far
    file,           \* the output file
    raised,         \* the exception that left the command
    perf,           \* perf-test's PerformanceTest object
    failed_pings,   \* perf-test's count of pings without a pong
    clock           \* what time.time() returns

codecVars == <<call, ret>>
perfVars == <<perf, failed_pings, clock>>
commandVars ==
    <<pc, cmd, iface, inbox, events, response, parsed, output, file, raised,
      perf, failed_pings, clock>>
vars == <<call, ret, pc, cmd, iface, inbox, events, response, parsed, output,
          file, raised, perf, failed_pings, clock>>

-----------------------------------------------------------------------------
(* Bounds of the explored inputs *)

\* longest operator list of an input preset (the generator reads 4)
MaxOperatorsIn == 5
\* how far below 0 and above 127 (15 for a channel) the arguments range
ArgMargin == 2
\* most bytes inserted into a frame ahead of its last byte
MaxExtra == 2
\* most messages that reach the MIDI input port during one command
MaxInbox == 2
\* the most melody banks of a WOPN file
MaxWopnBanks == 2
\* the most pings one perf-test run sends
MaxPings == 12

-----------------------------------------------------------------------------
(* Python values *)

Min(a, b) == IF a < b THEN a ELSE b

\* data[a:b] of a byte string (clamped, never raises)
Slice(data, a, b) == SubSeq(data, a + 1, Min(b, Len(data)))

\* x or 0
OrZero(x) == IF x = 0 THEN 0 ELSE x

RECURSIVE Flatten(_)
Flatten(ss) == IF ss = <<>> THEN <<>> ELSE Head(ss) \o Flatten(Tail(ss))

\* [0] * n
Zeros(n) == [i \in 1..n |-> 0]

\* frame with the byte at 0-based index i replaced by b
ReplaceByte(frame, i, b) == [frame EXCEPT ![i + 1] = b]

FieldNames ==
    <<"mul", "dt", "ar", "rs", "dr", "am", "sl", "sr", "rr", "tl", "ssg">>

FMOperator(mul, dt, ar, rs, dr, am, sl, sr, rr, tl, ssg) ==
    [mul |-> mul, dt |-> dt, ar |-> ar, rs |-> rs, dr |-> dr, am |-> am,
     sl |-> sl, sr |-> sr, rr |-> rr, tl |-> tl, ssg |-> ssg]

Preset(format_type, name, algorithm, feedback, lfo_ams, lfo_fms, operators) ==
    [format_type |-> format_type, name |-> name, algorithm |-> algorithm,
     feedback |-> feedback, lfo_ams |-> lfo_ams, lfo_fms |-> lfo_fms,
     operators |-> operators]

NoPreset == Preset("", <<>>, 0, 0, 0, 0, <<>>)

\* outcomes of a call: a byte string, a preset, or an exception and its text
ReturnBytes(b) ==
    [status |-> "ok", bytes |-> b, preset |-> NoPreset, msg |-> ""]
ReturnPreset(p) ==
    [status |-> "ok", bytes |-> <<>>, preset |-> p, msg |-> ""]
RaiseMsg(exc, msg) ==
    [status |-> exc, bytes |-> <<>>, preset |-> NoPreset, msg |-> msg]
Raise(exc) == RaiseMsg(exc, "")

NoCall == [fn |-> "none", preset |-> NoPreset, arg |-> 0, data |-> <<>>]

Called(fn, preset, arg, data) ==
    [fn |-> fn, preset |-> preset, arg |-> arg, data |-> data]

\* bytes(list): every element must be in range(256)
ToBytes(message) ==
    IF \A i \in 1..Len(message) : message[i] \in 0..255
    THEN ReturnBytes(message)
    ELSE Raise("ValueError")

-----------------------------------------------------------------------------
(* SysExGenerator *)

SYSEX_START == 240
SYSEX_END == 247
MDMI_MANUFACTURER_ID == <<0, 34, 119>>
LOAD_PRESET_CMD == 10
CLEAR_PRESET_CMD == 11
\* CLEAR_ALL_CMD given the command of clear-preset
ClearAllCmdCopied == CLEAR_PRESET_CMD
CLEAR_ALL_CMD == 12
DUMP_PRESET_CMD == 13
DUMP_CHANNEL_CMD == 15
FM_TYPE == 0
MAX_PROGRAM == 127
MAX_CHANNEL == 15
NUM_OPERATORS == 4
OPERATOR_BYTES == 11

\* LoadOperatorBytes that emits nothing for an operator the preset lacks
LoadOperatorBytesNoPadding(operators, i) ==
    IF i < Len(operators)
    THEN LET op == operators[i + 1] IN
         <<OrZero(op.mul), OrZero(op.dt), OrZero(op.ar), OrZero(op.rs),
           OrZero(op.dr), OrZero(op.am), OrZero(op.sl), OrZero(op.sr),
           OrZero(op.rr), OrZero(op.tl), OrZero(op.ssg)>>
    ELSE <<>>

\* the 11 bytes of operator i (0-based) of a load message
LoadOperatorBytes(operators, i) ==
    IF i < Len(operators)
    THEN LET op == operators[i + 1] IN
         <<OrZero(op.mul), OrZero(op.dt), OrZero(op.ar), OrZero(op.rs),
           OrZero(op.dr), OrZero(op.am), OrZero(op.sl), OrZero(op.sr),
           OrZero(op.rr), OrZero(op.tl), OrZero(op.ssg)>>
    ELSE Zeros(OPERATOR_BYTES)

ProgramValid(program) == 0 <= program /\ program <= MAX_PROGRAM

\* ChannelValid with the upper limit off by one
ChannelValidOffByOne(midi_channel) ==
    0 <= midi_channel /\ midi_channel <= MAX_CHANNEL + 1

ChannelValid(midi_channel) == 0 <= midi_channel /\ midi_channel <= MAX_CHANNEL

generate_preset_load(preset, program) ==
    IF ~ProgramValid(program) THEN Raise("ValueError")
    ELSE ToBytes(
        <<SYSEX_START>> \o MDMI_MANUFACTURER_ID
        \o <<LOAD_PRESET_CMD, FM_TYPE, program>>
        \o <<OrZero(preset.algorithm), OrZero(preset.feedback),
             OrZero(preset.lfo_ams), OrZero(preset.lfo_fms)>>
        \o Flatten([i \in 1..NUM_OPERATORS |->
                       LoadOperatorBytes(preset.operators, i - 1)])
        \o <<SYSEX_END>>)

generate_clear_preset(program) ==
    IF ~ProgramValid(program) THEN Raise("ValueError")
    ELSE ToBytes(<<SYSEX_START>> \o MDMI_MANUFACTURER_ID
                 \o <<CLEAR_PRESET_CMD, FM_TYPE, program, SYSEX_END>>)

generate_clear_all_presets ==
    ToBytes(<<SYSEX_START>> \o MDMI_MANUFACTURER_ID
            \o <<CLEAR_ALL_CMD, FM_TYPE, SYSEX_END>>)

generate_dump_preset_request(program) ==
    IF ~ProgramValid(program) THEN Raise("ValueError")
    ELSE ToBytes(<<SYSEX_START>> \o MDMI_MANUFACTURER_ID
                 \o <<DUMP_PRESET_CMD, FM_TYPE, program, SYSEX_END>>)

generate_dump_channel_request(midi_channel) ==
    IF ~ChannelValid(midi_channel) THEN Raise("ValueError")
    ELSE ToBytes(<<SYSEX_START>> \o MDMI_MANUFACTURER_ID
                 \o <<DUMP_CHANNEL_CMD, FM_TYPE, midi_channel, SYSEX_END>>)

-----------------------------------------------------------------------------
(* Dump-response decoders (preset_parsers.py) *)

DUMP_PRESET_RESPONSE_CMD == 14
DUMP_CHANNEL_RESPONSE_CMD == 16
\* MIN_SYSEX_LEN of a decoder that does not check the length first
MinSysexLenUnchecked == 8 - 8
MIN_SYSEX_LEN == 8
MIN_FM_DUMP_LEN == 8 + 4 + 44
DATA_START == 7

\* DumpOperator reading tl and rr in each other's place
DumpOperatorSwapped(sysex_data, i) ==
    LET op_offset == DATA_START + 4 + (i * OPERATOR_BYTES)
        op_data == Slice(sysex_data, op_offset, op_offset + OPERATOR_BYTES)
    IN  IF op_offset + OPERATOR_BYTES > Len(sysex_data) - 1
        THEN [status |-> "PresetParseError", op |-> <<>>]
        ELSE IF Len(op_data) < OPERATOR_BYTES
        THEN [status |-> "IndexError", op |-> <<>>]
        ELSE [status |-> "ok",
              op |-> <<FMOperator(op_data[1], op_data[2], op_data[3],
                                  op_data[4], op_data[5], op_data[6],
                                  op_data[7], op_data[8], op_data[10],
                                  op_data[9], op_data[11])>>]

\* one pass of the operator loop: operator i (0-based) of the frame, or the
\* exception that pass raises
DumpOperator(sysex_data, i) ==
    LET op_offset == DATA_START + 4 + (i * OPERATOR_BYTES)
        op_data == Slice(sysex_data, op_offset, op_offset + OPERATOR_BYTES)
    IN  IF op_offset + OPERATOR_BYTES > Len(sysex_data) - 1
        THEN [status |-> "PresetParseError", op |-> <<>>]
        ELSE IF Len(op_data) < OPERATOR_BYTES
        THEN [status |-> "IndexError", op |-> <<>>]
        ELSE [status |-> "ok",
              op |-> <<FMOperator(op_data[1], op_data[2], op_data[3],
                                  op_data[4], op_data[5], op_data[6],
                                  op_data[7], op_data[8], op_data[9],
                                  op_data[10], op_data[11])>>]

\* the body shared by the two decoders, which differ in the response command,
\* in the name they give the preset and in the wording of their errors
ParseFmDump(sysex_data, response_cmd, what, noun) ==
    LET n == Len(sysex_data)
        passes == [i \in 1..NUM_OPERATORS |-> DumpOperator(sysex_data, i - 1)]
        failed == {i \in 1..NUM_OPERATORS : passes[i].status # "ok"}
        first == CHOOSE i \in failed : \A j \in failed : i <= j
    IN  IF n < MIN_SYSEX_LEN
        THEN RaiseMsg("PresetParseError",
                      "SysEx too short for " \o what \o " response")
        ELSE IF n < 1 THEN Raise("IndexError")
        ELSE IF sysex_data[1] # SYSEX_START
                \/ Slice(sysex_data, 1, 4) # MDMI_MANUFACTURER_ID
        THEN RaiseMsg("PresetParseError",
                      "Invalid MDMI " \o what \o " response SysEx")
        ELSE IF n < 5 THEN Raise("IndexError")
        ELSE IF sysex_data[5] # response_cmd
        THEN RaiseMsg("PresetParseError",
                      "Invalid MDMI " \o what \o " response SysEx")
        ELSE IF sysex_data[n] # SYSEX_END
        THEN RaiseMsg("PresetParseError", "SysEx not properly terminated")
        ELSE IF n < 7 THEN Raise("IndexError")
        ELSE IF sysex_data[6] # 0
        THEN RaiseMsg("PresetParseError",
                      "Unsupported " \o noun \o " type: "
                          \o ToString(sysex_data[6]))
        ELSE IF n < MIN_FM_DUMP_LEN
        THEN RaiseMsg("PresetParseError", "Insufficient data for FM " \o noun)
        ELSE IF n < DATA_START + 4 THEN Raise("IndexError")
        ELSE IF failed # {}
        THEN RaiseMsg(passes[first].status,
                      "Insufficient data for operator " \o ToString(first - 1))
        ELSE ReturnPreset(
                Preset("None", <<noun, sysex_data[7]>>,
                       sysex_data[DATA_START + 1], sysex_data[DATA_START + 2],
                       sysex_data[DATA_START + 3], sysex_data[DATA_START + 4],
                       Flatten([i \in 1..NUM_OPERATORS |-> passes[i].op])))

parse_dump_response(sysex_data) ==
    ParseFmDump(sysex_data, DUMP_PRESET_RESPONSE_CMD, "dump", "preset")

parse_channel_dump_response(sysex_data) ==
    ParseFmDump(sysex_data, DUMP_CHANNEL_RESPONSE_CMD, "channel dump",
                "channel")

-----------------------------------------------------------------------------
(* Preset file writers (preset_parsers.py) *)

DMP_VERSION == 11
DMP_SYSTEM_GENESIS == 1
DMP_MODE_FM == 1

\* dmp_order that stores the operators in their logical order
DmpOrderAsGiven == <<0, 1, 2, 3>>
\* logical operators in the order the DMP file stores them
DmpOrder == <<0, 2, 1, 3>>

DmpOperatorBytes(op) ==
    <<op.mul, op.tl, op.ar, op.dr, op.sl, op.rr, op.am, op.rs, op.dt, op.sr,
      op.ssg>>

\* the operator bytes with the am byte the TFI layout does not have
TfiOperatorBytesWithAm(op) ==
    <<op.mul, op.dt, op.tl, op.rs, op.ar, op.dr, op.sr, op.rr, op.sl, op.ssg,
      op.am>>

TfiOperatorBytes(op) ==
    <<op.mul, op.dt, op.tl, op.rs, op.ar, op.dr, op.sr, op.rr, op.sl, op.ssg>>

\* the bytes write_dmp_preset puts in the file, or the exception it raises
write_dmp_preset(preset) ==
    IF Len(preset.operators) < NUM_OPERATORS
    THEN RaiseMsg("ValueError", "DMP format requires 4 operators")
    ELSE ToBytes(
        <<DMP_VERSION, DMP_SYSTEM_GENESIS, DMP_MODE_FM>>
        \o <<preset.lfo_fms, preset.feedback, preset.algorithm,
             preset.lfo_ams>>
        \o Flatten([k \in 1..Len(DmpOrder) |->
                       DmpOperatorBytes(preset.operators[DmpOrder[k] + 1])]))

\* the bytes write_tfi_preset puts in the file, or the exception it raises
write_tfi_preset(preset) ==
    IF Len(preset.operators) < NUM_OPERATORS
    THEN RaiseMsg("ValueError", "TFI format requires 4 operators")
    ELSE ToBytes(
        <<preset.algorithm, preset.feedback>>
        \o Flatten([k \in 1..Len(preset.operators) |->
                       TfiOperatorBytes(preset.operators[k])]))

-----------------------------------------------------------------------------
(* DMP file parser (presets/dmp_parser.py) *)

\* read_byte on a stream at position pos: f.read(1) is empty at the end of
\* the stream and int.from_bytes(b"") is 0
read_byte(data, pos) == IF pos < Len(data) THEN data[pos + 1] ELSE 0

FmOperator(dt, mul, tl, rs, ar, am, dr, sr, sl, rr, ssg) ==
    [dt |-> dt, mul |-> mul, tl |-> tl, rs |-> rs, ar |-> ar, am |-> am,
     dr |-> dr, sr |-> sr, sl |-> sl, rr |-> rr, ssg |-> ssg]

\* the names unpack_dict gives to the 11 bytes of an operator record
DmpFields ==
    <<"mul", "tl", "ar", "dr", "sl", "rr", "am", "rs", "dt", "sr", "ssg">>

\* the position of a name in DmpFields
DmpFieldIndex(name) == CHOOSE k \in 1..Len(DmpFields) : DmpFields[k] = name

\* parse_operator on the stream at pos: f.read(11) returns what is left of
\* the stream and unpack_dict raises when that is less than 88 bits
parse_operator(data, pos) ==
    LET chunk == Slice(data, pos, pos + OPERATOR_BYTES)
        v(name) == chunk[DmpFieldIndex(name)]
    IN  IF Len(chunk) < Len(DmpFields)
        THEN [status |-> "bitstruct.Error",
              op |-> FmOperator(0, 0, 0, 0, 0, 0, 0, 0, 0, 0, 0)]
        ELSE [status |-> "ok",
              op |-> FmOperator(v("dt"), v("mul"), v("tl"), v("rs"), v("ar"),
                                v("am"), v("dr"), v("sr"), v("sl"), v("rr"),
                                v("ssg"))]

\* system_type of a file that has none
NoSystemType == <<>>

\* the Dmp object: a Preset (preset.py) carrying the file's version, system
\* type and instrument mode
Dmp(name, version, system_type, instrument_mode) ==
    [name |-> name, version |-> version, system_type |-> system_type,
     instrument_mode |-> instrument_mode, algorithm |-> 0, feedback |-> 0,
     lfo_ams |-> 0, lfo_fms |-> 0, operators |-> <<>>]

\* DmpAppendOrder that keeps the order of the file
DmpAppendOrderAsStored == <<0, 1, 2, 3>>
\* the indices of ops in the order parse_dmp appends them to dmp.operators
DmpAppendOrder == <<0, 2, 1, 3>>

\* the FM part of parse_dmp, read from the stream at pos
ParseDmpFm(dmp, data, pos) ==
    LET ops == [k \in 1..NUM_OPERATORS |->
                   parse_operator(data, pos + 4 + OPERATOR_BYTES * (k - 1))]
    IN  IF \E k \in 1..NUM_OPERATORS : ops[k].status # "ok"
        THEN [status |-> "bitstruct.Error", dmp |-> dmp]
        ELSE [status |-> "ok",
              dmp |-> [dmp EXCEPT
                  !.lfo_fms = read_byte(data, pos),
                  !.feedback = read_byte(data, pos + 1),
                  !.algorithm = read_byte(data, pos + 2),
                  !.lfo_ams = read_byte(data, pos + 3),
                  !.operators = [k \in 1..Len(DmpAppendOrder) |->
                                    ops[DmpAppendOrder[k] + 1].op]]]

\* parse_dmp on a stream holding data: the Dmp object or the exception
parse_dmp(data, name) ==
    LET version == read_byte(data, 0)
        old == version = 8 \/ version = 9
        system_type == IF version = 11 THEN <<read_byte(data, 1)>>
                       ELSE NoSystemType
        instrument_mode == IF old THEN read_byte(data, 1)
                           ELSE IF version = 11 THEN read_byte(data, 2)
                           ELSE 0
        pos == IF old \/ version = 11 THEN 3 ELSE 1
        dmp == Dmp(name, version, system_type, instrument_mode)
    IN  IF instrument_mode = 1
        THEN ParseDmpFm(dmp, data, pos)
        ELSE [status |-> "ok", dmp |-> dmp]

_convert_fm_operator(fm_op) ==
    FMOperator(fm_op.mul, fm_op.dt, fm_op.ar, fm_op.rs, fm_op.dr, fm_op.am,
               fm_op.sl, fm_op.sr, fm_op.rr, fm_op.tl, fm_op.ssg)

\* the DMP branch of parse_preset: the Preset with its version and system
parse_preset_dmp(data) ==
    LET r == parse_dmp(data, "dmp_data")
        p == Preset("DMP", r.dmp.name, r.dmp.algorithm, r.dmp.feedback,
                    r.dmp.lfo_ams, r.dmp.lfo_fms,
                    [k \in 1..Len(r.dmp.operators) |->
                        _convert_fm_operator(r.dmp.operators[k])])
    IN  IF r.status # "ok"
        THEN Raise(r.status)
        ELSE ReturnPreset(
                 [f \in DOMAIN p \cup {"version", "system"} |->
                     IF f = "version" THEN r.dmp.version
                     ELSE IF f = "system" THEN r.dmp.system_type
                     ELSE p[f]])

-----------------------------------------------------------------------------
(* Format detection (preset_parsers.py) *)

\* b"WOPN2-B2NK\x00"
WOPN_MAGIC == <<87, 79, 80, 78, 50, 45, 66, 50, 78, 75, 0>>
\* b".DMP"
DMP_MAGIC == <<46, 68, 77, 80>>
WOPN_MIN_LEN == 12
DMP_MIN_LEN == 4
TFI_LEN == 42
DMP_VERSIONS == {8, 9, 11}

\* data.startswith(prefix)
StartsWith(data, prefix) ==
    /\ Len(data) >= Len(prefix)
    /\ SubSeq(data, 1, Len(prefix)) = prefix

\* the outcome of a call that returns a string
ReturnStr(t) ==
    [status |-> "ok", bytes |-> <<>>, preset |-> NoPreset, msg |-> "",
     tag |-> t]

\* `len(data) > 0` that lets the empty buffer through
FirstByteUnguarded(data) == TRUE

\* `len(data) > 0`, the guard of data[0]
FirstByteGuard(data) == Len(data) > 0

\* detect_preset_format that tests the version byte before the length
DetectVersionBeforeLength(data) ==
    IF Len(data) >= WOPN_MIN_LEN /\ StartsWith(data, WOPN_MAGIC)
    THEN ReturnStr("WOPN")
    ELSE IF Len(data) >= DMP_MIN_LEN /\ StartsWith(data, DMP_MAGIC)
    THEN ReturnStr("DMP")
    ELSE IF Len(data) > 0 /\ data[1] \in DMP_VERSIONS
    THEN ReturnStr("DMP")
    ELSE IF Len(data) = TFI_LEN
    THEN ReturnStr("TFI")
    ELSE ReturnStr("UNKNOWN")

detect_preset_format(data) ==
    IF Len(data) >= WOPN_MIN_LEN /\ StartsWith(data, WOPN_MAGIC)
    THEN ReturnStr("WOPN")
    ELSE IF Len(data) >= DMP_MIN_LEN /\ StartsWith(data, DMP_MAGIC)
    THEN ReturnStr("DMP")
    ELSE IF Len(data) = TFI_LEN
    THEN ReturnStr("TFI")
    ELSE IF FirstByteGuard(data)
    THEN (IF Len(data) = 0 THEN Raise("IndexError")
          ELSE IF data[1] \in DMP_VERSIONS THEN ReturnStr("DMP")
          ELSE ReturnStr("UNKNOWN"))
    ELSE ReturnStr("UNKNOWN")

-----------------------------------------------------------------------------
(* TFI file parser (presets/tfi_parser.py) and parse_preset *)

\* the keyword parameters of FmOperator.__init__
FmOperatorParams ==
    {"dt", "mul", "tl", "rs", "ar", "am", "dr", "sr", "sl", "rr", "ssg"}

\* FmOperator(**kw): a keyword that is no parameter is a TypeError, a
\* parameter not given takes its default 0
FmOperatorFromKeywords(kw) ==
    LET v(name) == IF name \in DOMAIN kw THEN kw[name] ELSE 0
    IN  IF ~(DOMAIN kw \subseteq FmOperatorParams)
        THEN [status |-> "TypeError",
              op |-> FmOperator(0, 0, 0, 0, 0, 0, 0, 0, 0, 0, 0)]
        ELSE [status |-> "ok",
              op |-> FmOperator(v("dt"), v("mul"), v("tl"), v("rs"), v("ar"),
                                v("am"), v("dr"), v("sr"), v("sl"), v("rr"),
                                v("ssg"))]

TFI_OPERATOR_BYTES == 10

\* f.read(10) at pos, padded with zeros to 10 bytes
TfiOperatorData(data, pos) ==
    LET chunk == Slice(data, pos, pos + TFI_OPERATOR_BYTES)
    IN  chunk \o Zeros(TFI_OPERATOR_BYTES - Len(chunk))

\* the keywords parse_operator of the TFI parser passes to FmOperator
TfiOperatorKeywords(d) ==
    [mul |-> d[1], dt |-> d[2], tl |-> d[3], rs |-> d[4], ar |-> d[5],
     am |-> 0, dr |-> d[6], d2r |-> d[7], sl |-> d[9], rr |-> d[8],
     ssg |-> d[10]]

\* parse_operator of the TFI parser on the stream at pos
tfi_parse_operator(data, pos) ==
    FmOperatorFromKeywords(TfiOperatorKeywords(TfiOperatorData(data, pos)))

\* the Tfi object (presets/tfi.py)
Tfi(name, algorithm, feedback) ==
    [name |-> name, algorithm |-> algorithm, feedback |-> feedback,
     lfo_ams |-> 0, lfo_fms |-> 0, operators |-> <<>>]

\* parse_tfi on a stream holding data: the Tfi object or the exception
parse_tfi(data, name) ==
    LET tfi == Tfi(name, read_byte(data, 0), read_byte(data, 1))
        ops == [k \in 1..NUM_OPERATORS |->
                   tfi_parse_operator(data,
                                      2 + TFI_OPERATOR_BYTES * (k - 1))]
    IN  IF \E k \in 1..NUM_OPERATORS : ops[k].status # "ok"
        THEN [status |-> "TypeError", tfi |-> tfi]
        ELSE [status |-> "ok",
              tfi |-> [tfi EXCEPT !.operators =
                          [k \in 1..NUM_OPERATORS |-> ops[k].op]]]

\* the TFI branch of parse_preset: the Preset with the raw file bytes
parse_preset_tfi(data) ==
    LET r == parse_tfi(data, "tfi_data")
        p == Preset("TFI", r.tfi.name, r.tfi.algorithm, r.tfi.feedback,
                    r.tfi.lfo_ams, r.tfi.lfo_fms,
                    [k \in 1..Len(r.tfi.operators) |->
                        _convert_fm_operator(r.tfi.operators[k])])
    IN  IF r.status # "ok"
        THEN Raise(r.status)
        ELSE ReturnPreset(
                 [f \in DOMAIN p \cup {"fm_parameters"} |->
                     IF f = "fm_parameters" THEN data ELSE p[f]])

\* the format tags parse_preset is called with here; the WOPN branch, which
\* takes a bank and an instrument, is parse_preset_wopn
FormatTags == {"TFI", "DMP", "UNKNOWN"}

parse_preset(data, format_type) ==
    CASE format_type = "DMP" -> parse_preset_dmp(data)
      [] format_type = "TFI" -> parse_preset_tfi(data)
      [] OTHER -> RaiseMsg("PresetParseError",
                           "Unsupported format: " \o format_type)

-----------------------------------------------------------------------------
(* The file a writer leaves behind (preset_parsers.py) *)

\* the number of leading entries of dmp_order that index an operator the
\* preset has: preset.operators[op_idx] raises IndexError at the next one
DmpOperatorsReached(preset) ==
    CHOOSE n \in 0..Len(DmpOrder) :
        /\ \A k \in 1..n : DmpOrder[k] < Len(preset.operators)
        /\ n < Len(DmpOrder) => DmpOrder[n + 1] >= Len(preset.operators)

\* f.write(bytes([...])) of the DMP writer, one sequence per call
DmpWrites(preset) ==
    <<<<DMP_VERSION>>, <<DMP_SYSTEM_GENESIS>>, <<DMP_MODE_FM>>,
      <<preset.lfo_fms>>, <<preset.feedback>>, <<preset.algorithm>>,
      <<preset.lfo_ams>>>>
    \o [k \in 1..DmpOperatorsReached(preset) |->
           DmpOperatorBytes(preset.operators[DmpOrder[k] + 1])]

\* f.write(bytes([...])) of the TFI writer, one sequence per call
TfiWrites(preset) ==
    <<<<preset.algorithm>>, <<preset.feedback>>>>
    \o [k \in 1..Len(preset.operators) |->
           TfiOperatorBytes(preset.operators[k])]

\* the number of leading writes whose bytes([...]) does not raise
WritesDone(writes) ==
    CHOOSE n \in 0..Len(writes) :
        /\ \A k \in 1..n : ToBytes(writes[k]).status = "ok"
        /\ n < Len(writes) => ToBytes(writes[n + 1]).status # "ok"

\* open(output_path, "wb") and the writes made until one raises
WrittenFile(writes) ==
    [exists |-> TRUE,
     bytes |-> Flatten(SubSeq(writes, 1, WritesDone(writes)))]

\* `len(preset.operators) < 4` compared with the wrong number
TooFewOperatorsOffByOne(preset) == Len(preset.operators) < NUM_OPERATORS - 1

\* `if len(preset.operators) < 4`
TooFewOperators(preset) == Len(preset.operators) < NUM_OPERATORS

\* the file at output_path after write_dmp_preset, given the file before
DmpFileAfter(preset, before) ==
    IF TooFewOperators(preset) THEN before
    ELSE WrittenFile(DmpWrites(preset))

\* the file at output_path after write_tfi_preset, given the file before
TfiFileAfter(preset, before) ==
    IF TooFewOperators(preset) THEN before
    ELSE WrittenFile(TfiWrites(preset))

\* what write_dmp_preset raises, or its return
DmpWriteOutcome(preset) ==
    IF TooFewOperators(preset)
    THEN RaiseMsg("ValueError", "DMP format requires 4 operators")
    ELSE IF WritesDone(DmpWrites(preset)) < Len(DmpWrites(preset))
    THEN Raise("ValueError")
    ELSE IF DmpOperatorsReached(preset) < Len(DmpOrder)
    THEN Raise("IndexError")
    ELSE ReturnBytes(<<>>)

\* what write_tfi_preset raises, or its return
TfiWriteOutcome(preset) ==
    IF TooFewOperators(preset)
    THEN RaiseMsg("ValueError", "TFI format requires 4 operators")
    ELSE IF WritesDone(TfiWrites(preset)) < Len(TfiWrites(preset))
    THEN Raise("ValueError")
    ELSE ReturnBytes(<<>>)

-----------------------------------------------------------------------------
(* WOPN file parser (presets/wopn_parser.py) and the WOPN branch of
   parse_preset *)

WOPN_MAGIC_BYTES == 11
WOPN_VERSION_BYTES == 2
WOPN_HEADER_BYTES == 5
WOPN_BANK_BYTES == 34
WOPN_BANK_NAME_BYTES == 32
WOPN_INSTRUMENT_BYTES == 37
WOPN_OPERATOR_BYTES == 7
WOPN_DELAY_BYTES == 4
INSTRUMENTS_PER_BANK == 128

\* unpack(fmt, f.read(n)) at pos raises when the stream has fewer than n
\* bytes left
ShortRead(data, pos, n) == pos + n > Len(data)

\* "u16": most significant byte first
U16(data, pos) == data[pos + 1] * 256 + data[pos + 2]

\* "u16<": least significant byte first
U16Little(data, pos) == data[pos + 1] + data[pos + 2] * 256

\* name.rstrip("\0") of a text field, as its bytes
RECURSIVE RStripNul(_)
RStripNul(name) ==
    IF name # <<>> /\ name[Len(name)] = 0
    THEN RStripNul(SubSeq(name, 1, Len(name) - 1))
    ELSE name

\* read_operator: "p1u3u4" "p1u7" "u2p1u5" "u1p2u5" "p3u5" "u4u4" "p4u4" as
\* dt, mul, tl, rs, ar, am, dr, sr, sl, rr, ssg
WopnOperator(data, pos) ==
    LET b(i) == data[pos + i + 1]
    IN  FmOperator((b(0) \div 16) % 8, b(0) % 16, b(1) % 128, b(2) \div 64,
                   b(2) % 32, b(3) \div 128, b(3) % 32, b(4) % 32,
                   b(5) \div 16, b(5) % 16, b(6) % 16)

\* the operator records of an instrument in logical order that are kept in
\* the order read
WopnReadOrderKept == <<0, 1, 2, 3>>

\* the record read for each logical operator: op1, op3, op2, op4 are read
\* and op1, op2, op3, op4 appended
WopnReadOrder == <<0, 2, 1, 3>>

WopnInstrumentSize ==
    WOPN_INSTRUMENT_BYTES + NUM_OPERATORS * WOPN_OPERATOR_BYTES
    + WOPN_DELAY_BYTES

\* the bytes of an instrument record that unpack needs: the delay bytes are
\* read with f.read(4) and dropped, however many there are
WopnInstrumentNeeded ==
    WOPN_INSTRUMENT_BYTES + NUM_OPERATORS * WOPN_OPERATOR_BYTES

\* read_instrument on the stream at pos (the record is complete)
read_instrument(data, pos) ==
    LET fa == data[pos + 36]
        lfo == data[pos + 37]
    IN  [name |-> RStripNul(SubSeq(data, pos + 1, pos + 31)),
         key_offset |-> U16(data, pos + 32),
         percussion_key |-> data[pos + 35],
         feedback |-> (fa \div 8) % 8,
         algorithm |-> fa % 8,
         lfo_ams |-> (lfo \div 16) % 4,
         lfo_fms |-> lfo % 8,
         operators |->
             [k \in 1..NUM_OPERATORS |->
                 WopnOperator(data,
                              pos + WOPN_INSTRUMENT_BYTES
                              + WOPN_OPERATOR_BYTES * WopnReadOrder[k])]]

\* the container classes of presets/wopn.py, wopn_bank.py and
\* wopn_instrument.py: a Wopn starts with no banks, a WopnBank with no
\* instruments
WopnBank(name, index, instruments) ==
    [name |-> name, index |-> index, instruments |-> instruments]

Wopn(version, m_banks, p_banks) ==
    [version |-> version, m_banks |-> m_banks, p_banks |-> p_banks]

NoWopn == Wopn(0, <<>>, <<>>)

\* the stream positions parse_wopn reaches on data, and what it reads on the
\* way to the bank table
WopnLayout(data) ==
    LET b2nk == /\ ~ShortRead(data, 0, WOPN_MAGIC_BYTES)
                /\ SubSeq(data, 1, WOPN_MAGIC_BYTES - 1)
                       = SubSeq(WOPN_MAGIC, 1, WOPN_MAGIC_BYTES - 1)
        headerAt == IF b2nk THEN WOPN_MAGIC_BYTES + WOPN_VERSION_BYTES
                    ELSE WOPN_MAGIC_BYTES
        shortHead == \/ ShortRead(data, 0, WOPN_MAGIC_BYTES)
                     \/ b2nk /\ ShortRead(data, WOPN_MAGIC_BYTES,
                                          WOPN_VERSION_BYTES)
                     \/ ShortRead(data, headerAt, WOPN_HEADER_BYTES)
        version == IF shortHead THEN 0
                   ELSE IF b2nk THEN U16Little(data, WOPN_MAGIC_BYTES)
                   ELSE 1
        banked == ~shortHead /\ version >= 2
    IN  [shortHead |-> shortHead,
         version |-> version,
         m_bank_count |-> IF banked THEN U16(data, headerAt) ELSE 0,
         p_bank_count |-> IF banked THEN U16(data, headerAt + 2) ELSE 0,
         banksAt |-> headerAt + WOPN_HEADER_BYTES]

\* read_banks and the instrument loops of parse_wopn for count banks whose
\* records start at banksAt and whose instruments start at instrumentsAt
read_banks(data, count, banksAt, instrumentsAt) ==
    [b \in 1..count |->
        LET at == banksAt + (b - 1) * WOPN_BANK_BYTES
        IN  WopnBank(RStripNul(SubSeq(data, at + 1,
                                      at + WOPN_BANK_NAME_BYTES)),
                     U16(data, at + WOPN_BANK_NAME_BYTES),
                     [j \in 1..INSTRUMENTS_PER_BANK |->
                         read_instrument(
                             data,
                             instrumentsAt
                             + ((b - 1) * INSTRUMENTS_PER_BANK + (j - 1))
                               * WopnInstrumentSize)])]

\* parse_wopn(BytesIO(data)): the Wopn, or the error of the first unpack
\* that is handed too few bytes
parse_wopn(data) ==
    LET l == WopnLayout(data)
        banks == l.m_bank_count + l.p_bank_count
        instrumentsAt == l.banksAt + banks * WOPN_BANK_BYTES
        needed == IF banks = 0 THEN instrumentsAt
                  ELSE instrumentsAt
                       + (banks * INSTRUMENTS_PER_BANK - 1)
                         * WopnInstrumentSize
                       + WopnInstrumentNeeded
    IN  IF l.shortHead \/ Len(data) < needed
        THEN [status |-> "bitstruct.Error", wopn |-> NoWopn]
        ELSE [status |-> "ok",
              wopn |-> Wopn(l.version,
                            read_banks(data, l.m_bank_count, l.banksAt,
                                       instrumentsAt),
                            read_banks(data, l.p_bank_count,
                                       l.banksAt
                                       + l.m_bank_count * WOPN_BANK_BYTES,
                                       instrumentsAt
                                       + l.m_bank_count
                                         * INSTRUMENTS_PER_BANK
                                         * WopnInstrumentSize))]

\* seq[i] of a Python list: a negative index counts from the end, and an
\* index on neither side of the list raises IndexError
PyIndexable(seq, i) == -Len(seq) <= i /\ i < Len(seq)
PyIndex(seq, i) == IF i < 0 THEN seq[Len(seq) + i + 1] ELSE seq[i + 1]

\* if index >= len(seq): raise PresetParseError
WopnIndexRejected(index, seq) == index >= Len(seq)

\* parse_preset(data, "WOPN", bank=, instrument=, bank_type=)
parse_preset_wopn(data, bank_index, instrument_index, bank_type) ==
    LET w == parse_wopn(data)
        banks == IF bank_type = "melody" THEN w.wopn.m_banks
                 ELSE w.wopn.p_banks
        bank == PyIndex(banks, bank_index)
        instrument == PyIndex(bank.instruments, instrument_index)
    IN  IF w.status # "ok" THEN Raise(w.status)
        ELSE IF WopnIndexRejected(bank_index, banks)
        THEN RaiseMsg("PresetParseError", "Bank not found")
        ELSE IF ~PyIndexable(banks, bank_index) THEN Raise("IndexError")
        ELSE IF WopnIndexRejected(instrument_index, bank.instruments)
        THEN RaiseMsg("PresetParseError", "Instrument not found in bank")
        ELSE IF ~PyIndexable(bank.instruments, instrument_index)
        THEN Raise("IndexError")
        ELSE ReturnPreset(
                 Preset("WOPN", instrument.name, instrument.algorithm,
                        instrument.feedback, instrument.lfo_ams,
                        instrument.lfo_fms,
                        [k \in 1..NUM_OPERATORS |->
                            _convert_fm_operator(instrument.operators[k])]))

-----------------------------------------------------------------------------
(* Transports (midi_interface.py) *)

PING_CMD == 1
PONG_CMD == 2
PING_MESSAGE == <<240, 0, 34, 119, 1, 247>>
EXPECTED_PONG == <<240, 0, 34, 119, 2, 247>>

\* wait_for_sysex returns Optional[bytes]
None == [is_none |-> TRUE, bytes |-> <<>>]
Some(b) == [is_none |-> FALSE, bytes |-> b]

\* operator op_num of the fake preset dump of a program
FakePresetOperator(program, op_num) ==
    LET base == (program + op_num * 10) % 128
    IN  <<1 + (base % 15), base % 8, 15 + (base % 16), base % 4,
          5 + (base % 16), base % 2, base % 16, base % 16, 1 + (base % 16),
          (base % 64) + (op_num * 16),
          IF base % 3 = 0 THEN 0 ELSE 8 + (base % 8)>>

\* operator op_num of the fake channel dump of a MIDI channel
FakeChannelOperator(midi_channel, op_num) ==
    LET base == (midi_channel + op_num * 20) % 128
    IN  <<1 + (base % 15), base % 8, 20 + (base % 12), base % 4,
          8 + (base % 12), base % 2, base % 16, base % 16, 5 + (base % 12),
          (base % 48) + (op_num * 12),
          IF base % 4 = 0 THEN 0 ELSE 8 + (base % 8)>>

FakePresetDump(last_msg) ==
    LET preset_type == last_msg[6]
        program == last_msg[7]
    IN  <<SYSEX_START, 0, 34, 119, DUMP_PRESET_RESPONSE_CMD, preset_type,
          program>>
        \o <<program % 8, (program * 2) % 8, program % 4, (program * 3) % 8>>
        \o Flatten([k \in 1..NUM_OPERATORS |->
                       FakePresetOperator(program, k - 1)])
        \o <<SYSEX_END>>

FakeChannelDump(last_msg) ==
    LET preset_type == last_msg[6]
        midi_channel == last_msg[7]
    IN  <<SYSEX_START, 0, 34, 119, DUMP_CHANNEL_RESPONSE_CMD, preset_type,
          midi_channel>>
        \o <<midi_channel % 8, (midi_channel * 3) % 8, midi_channel % 4,
             (midi_channel * 5) % 8>>
        \o Flatten([k \in 1..NUM_OPERATORS |->
                       FakeChannelOperator(midi_channel, k - 1)])
        \o <<SYSEX_END>>

\* FakeMIDIInterface.wait_for_sysex: the reply simulated for the message
\* sent last
FakeWaitForSysex(simulate_pong, sent_messages) ==
    LET last_msg == sent_messages[Len(sent_messages)]
    IN  IF ~simulate_pong THEN None
        ELSE IF sent_messages = <<>> \/ Len(last_msg) < 6 THEN None
        ELSE IF last_msg[1] # SYSEX_START
                \/ Slice(last_msg, 1, 4) # <<0, 34, 119>>
                \/ last_msg[Len(last_msg)] # SYSEX_END
        THEN None
        ELSE IF last_msg[5] = PING_CMD THEN Some(EXPECTED_PONG)
        ELSE IF last_msg[5] = DUMP_PRESET_CMD /\ Len(last_msg) >= 8
        THEN Some(FakePresetDump(last_msg))
        ELSE IF last_msg[5] = DUMP_CHANNEL_CMD /\ Len(last_msg) >= 8
        THEN Some(FakeChannelDump(last_msg))
        ELSE None

\* MIDIInterface.send_sysex: the frame mido puts on the wire
MidoSysexFrame(data) ==
    <<SYSEX_START>> \o Slice(data, 1, Len(data) - 1) \o <<SYSEX_END>>

\* positions of the pending messages that are SysEx
SysexPositions(pending) ==
    {i \in 1..Len(pending) : pending[i].type = "sysex"}

FirstSysex(pending) ==
    CHOOSE i \in SysexPositions(pending) :
        \A j \in SysexPositions(pending) : i <= j

\* MIDIInterface.wait_for_sysex: the first pending SysEx message, rebuilt
\* with F0 and F7, unless there is no input port, the time is up before the
\* first poll, polling fails, or no SysEx message comes in time
MidoWaitForSysex(has_input, timeout, poll_fails, pending) ==
    IF ~has_input THEN None
    ELSE IF ~(0 < timeout) THEN None
    ELSE IF poll_fails THEN None
    ELSE IF SysexPositions(pending) = {} THEN None
    ELSE Some(<<SYSEX_START>> \o pending[FirstSysex(pending)].data
              \o <<SYSEX_END>>)

\* the messages left pending after that wait
MidoPendingAfterWait(has_input, timeout, poll_fails, pending) ==
    IF ~has_input \/ ~(0 < timeout) \/ poll_fails THEN pending
    ELSE IF SysexPositions(pending) = {} THEN <<>>
    ELSE SubSeq(pending, FirstSysex(pending) + 1, Len(pending))

-----------------------------------------------------------------------------
(* Console output *)

HexDigits ==
    <<"0", "1", "2", "3", "4", "5", "6", "7", "8", "9", "A", "B", "C", "D",
      "E", "F">>

\* f"{b:X}": no leading zero
HexUnpadded(b) ==
    IF b < 16 THEN <<HexDigits[b + 1]>>
    ELSE <<HexDigits[(b \div 16) + 1], HexDigits[(b % 16) + 1]>>

\* f"{b:02X}": the two characters
Hex02X(b) == <<HexDigits[(b \div 16) + 1], HexDigits[(b % 16) + 1]>>

\* the words of " ".join(f"{b:02X}" for b in data)
HexWords(data) == [i \in 1..Len(data) |-> Hex02X(data[i])]

\* one click.echo: the fixed text and the values formatted into it
Line(text, values) == [text |-> text, values |-> values]

-----------------------------------------------------------------------------
(* Commands: dump-preset, dump-channel, ping *)

NoCommand ==
    [name |-> "none", param |-> 0, output_format |-> "dmp", dry_run |-> FALSE,
     timeout |-> 0, no_response |-> FALSE]

NoInterface ==
    [kind |-> "none", sent_messages |-> <<>>, simulate_pong |-> FALSE,
     has_input |-> FALSE, closed |-> 0]

NoFile == [exists |-> FALSE, bytes |-> <<>>]

\* a float: the bits, from the lowest, of a multiple of 2^-60 below 16
FloatZero == [i \in 1..64 |-> 0]

\* PerformanceTest() before its start time is set
NoPerformanceTest ==
    [latencies |-> <<>>, start_time |-> FloatZero, running |-> TRUE]

InitCommandVars ==
    /\ pc = "idle"
    /\ cmd = NoCommand
    /\ iface = NoInterface
    /\ inbox = <<>>
    /\ events = <<>>
    /\ response = None
    /\ parsed = Raise("none")
    /\ output = <<>>
    /\ file = NoFile
    /\ raised = "none"
    /\ perf = NoPerformanceTest
    /\ failed_pings = 0
    /\ clock = FloatZero

IsDump(name) == name \in {"dump_preset", "dump_channel"}

\* the wording the two dump commands and ping differ in
ErrorPrefix(name) ==
    CASE name = "dump_preset" -> "Error during dump: "
      [] name = "dump_channel" -> "Error during channel dump: "
      [] OTHER -> "Error during ping: "

NoReplyText(name) ==
    CASE name = "dump_preset" -> "No dump response received within"
      [] name = "dump_channel" -> "No channel dump response received within"
      [] OTHER -> "No pong response received within"

ParseFailedText(name) ==
    IF name = "dump_preset" THEN "Failed to parse dump response: "
    ELSE "Failed to parse channel dump response: "

\* `if dump_response is None` that never holds
NeverTimedOut(r) == FALSE

\* `if dump_response is None`
TimedOut(r) == r.is_none

\* a comparison of the command byte alone
IsPongByCommand(data) == Len(data) >= 5 /\ data[5] = PONG_CMD

\* `pong_response != expected_pong`, negated
IsPong(data) == data = EXPECTED_PONG

\* a wait that is made again when nothing came
AfterWaitRetry(r) == IF r.is_none THEN "sent" ELSE "waited"

\* the statement after wait_for_sysex, whatever it returned
AfterWait(r) == "waited"

\* the request the command builds
RequestOf(c) ==
    CASE c.name = "dump_preset" -> generate_dump_preset_request(c.param).bytes
      [] c.name = "dump_channel" -> generate_dump_channel_request(c.param).bytes
      [] OTHER -> PING_MESSAGE

\* the decoder the command applies to the response
DecodeFor(name, data) ==
    IF name = "dump_preset" THEN parse_dump_response(data)
    ELSE parse_channel_dump_response(data)

\* the writer the command applies to the decoded preset
WriteFor(output_format, preset) ==
    IF output_format = "dmp" THEN write_dmp_preset(preset)
    ELSE write_tfi_preset(preset)

\* get_ping_interface: the fake interface on --dry-run, else the MIDI ports
OpenInterface(dry_run, has_input) ==
    IF dry_run
    THEN [kind |-> "fake", sent_messages |-> <<>>, simulate_pong |-> TRUE,
          has_input |-> TRUE, closed |-> 0]
    ELSE [kind |-> "mido", sent_messages |-> <<>>, simulate_pong |-> FALSE,
          has_input |-> has_input, closed |-> 0]

\* `except Exception` around the whole command: echo, then click.Abort
Aborted(lines, text, values) == lines \o <<Line(text, values)>>

\* `finally: interface.close()`
Closed(i) == [i EXCEPT !.closed = @ + 1]

CommandInputs ==
    {[name |-> "dump_preset", param |-> p, output_format |-> f,
      dry_run |-> d, timeout |-> t, no_response |-> FALSE] :
        p \in {0, 5, MAX_PROGRAM}, f \in {"dmp", "tfi"}, d \in BOOLEAN,
        t \in {0, 5}}
    \cup
    {[name |-> "dump_channel", param |-> c, output_format |-> f,
      dry_run |-> d, timeout |-> t, no_response |-> FALSE] :
        c \in {0, MAX_CHANNEL}, f \in {"dmp", "tfi"}, d \in BOOLEAN,
        t \in {0, 5}}
    \cup
    {[name |-> "ping", param |-> 0, output_format |-> "dmp", dry_run |-> d,
      timeout |-> t, no_response |-> n] :
        d \in BOOLEAN, t \in {0, 5}, n \in BOOLEAN}

\* the command starts and obtains its transport; a port that is not found
\* makes the constructor raise ValueError, and the command aborts with no
\* interface to close
Invoke ==
    /\ pc = "idle"
    /\ \E c \in CommandInputs, port_found \in BOOLEAN, has_input \in BOOLEAN,
          mocked \in BOOLEAN :
        /\ c.dry_run => port_found /\ has_input
        /\ mocked => c.dry_run
        /\ cmd' = c
        /\ IF port_found
           THEN /\ iface' =
                    [OpenInterface(c.dry_run, has_input) EXCEPT
                        !.kind = IF mocked THEN "mock" ELSE @,
                        !.simulate_pong =
                            IF c.name = "ping" /\ c.no_response /\ c.dry_run
                            THEN FALSE ELSE @]
                /\ pc' = "opened"
                /\ UNCHANGED <<output, raised>>
           ELSE /\ iface' = NoInterface
                /\ output' = Aborted(output, ErrorPrefix(c.name),
                                     <<"MIDI port not found">>)
                /\ raised' = "Abort"
                /\ pc' = "done"
    /\ UNCHANGED <<inbox, events, response, parsed, file, call, ret,
                   perfVars>>

\* mido messages a device can deliver: pong, dump responses, a dump response
\* cut short, and a message that is not SysEx
DeviceMessages ==
    {[type |-> "sysex", data |-> <<0, 34, 119, PONG_CMD>>],
     [type |-> "sysex",
      data |-> Slice(FakePresetDump(generate_dump_preset_request(5).bytes),
                     1, 55)],
     [type |-> "sysex",
      data |-> Slice(FakeChannelDump(generate_dump_channel_request(0).bytes),
                     1, 55)],
     [type |-> "sysex", data |-> <<0, 34, 119, 14, 0, 5, 1, 2>>],
     [type |-> "note_on", data |-> <<60, 100>>]}

\* values a test double returns from wait_for_sysex
MockReplies ==
    {None, Some(EXPECTED_PONG), Some(<<240, 0, 34, 119, 153, 247>>),
     Some(<<>>), Some(<<240, 0, 34, 119, 2, 0, 247>>),
     Some(FakePresetDump(generate_dump_preset_request(5).bytes)),
     Some(Slice(FakePresetDump(generate_dump_preset_request(5).bytes), 0, 55)),
     Some(Slice(FakePresetDump(generate_dump_preset_request(5).bytes), 0, 40)
          \o <<SYSEX_END>>),
     Some(FakeChannelDump(generate_dump_channel_request(0).bytes)),
     Some(Slice(FakeChannelDump(generate_dump_channel_request(0).bytes), 0, 55)),
     Some(ReplaceByte(FakePresetDump(generate_dump_preset_request(5).bytes),
                      5, 1))}

\* a message reaches the open input port; `early` notes that it came before
\* the request was sent
MidiArrives ==
    /\ pc \in {"opened", "sent"}
    /\ iface.kind = "mido"
    /\ iface.has_input
    /\ Len(inbox) < MaxInbox
    /\ \E m \in DeviceMessages :
        inbox' = Append(inbox, [type |-> m.type, data |-> m.data,
                                early |-> pc = "opened"])
    /\ UNCHANGED <<pc, cmd, iface, events, response, parsed, output, file,
                   raised, call, ret,
                   perfVars>>

\* what MIDIInterface.wait_for_sysex prints: an exception of polling is
\* caught, printed, and ends the wait
PollErrorText == "Exception in wait_for_sysex: "

MidoWaitPrints(has_input, timeout, poll_fails) ==
    IF has_input /\ 0 < timeout /\ poll_fails
    THEN <<Line(PollErrorText, <<"poll failed">>)>>
    ELSE <<>>

\* interface.send_sysex(request); an error of the output port aborts the
\* command, which closes the interface
Send ==
    /\ pc = "opened"
    /\ events' = Append(events, "send")
    /\ \E send_fails \in BOOLEAN :
        /\ send_fails => iface.kind = "mido"
        /\ IF send_fails
           THEN /\ iface' = Closed(iface)
                /\ output' =
                       Aborted(output \o <<Line("Requesting", <<>>)>>,
                               ErrorPrefix(cmd.name), <<"send failed">>)
                /\ raised' = "Abort"
                /\ pc' = "done"
           ELSE /\ iface' =
                    [iface EXCEPT !.sent_messages =
                        Append(@, IF iface.kind = "mido"
                                  THEN MidoSysexFrame(RequestOf(cmd))
                                  ELSE RequestOf(cmd))]
                /\ output' = output \o <<Line("Requesting", <<>>)>>
                /\ raised' = raised
                /\ pc' = "sent"
    /\ UNCHANGED <<cmd, inbox, response, parsed, file, call, ret,
                   perfVars>>

\* interface.wait_for_sysex(timeout)
Wait ==
    /\ pc = "sent"
    /\ events' = Append(events, "wait")
    /\ \/ /\ iface.kind = "fake"
          /\ response' =
                 FakeWaitForSysex(iface.simulate_pong, iface.sent_messages)
          /\ inbox' = inbox
          /\ output' = output \o <<Line("Waiting", <<ToString(cmd.timeout)>>)>>
       \/ /\ iface.kind = "mido"
          /\ \E poll_fails \in BOOLEAN :
                /\ response' = MidoWaitForSysex(iface.has_input, cmd.timeout,
                                                poll_fails, inbox)
                /\ inbox' = MidoPendingAfterWait(iface.has_input, cmd.timeout,
                                                 poll_fails, inbox)
                /\ output' =
                       output
                       \o <<Line("Waiting", <<ToString(cmd.timeout)>>)>>
                       \o MidoWaitPrints(iface.has_input, cmd.timeout,
                                         poll_fails)
       \/ /\ iface.kind = "mock"
          /\ \E r \in MockReplies : response' = r
          /\ inbox' = inbox
          /\ output' = output \o <<Line("Waiting", <<ToString(cmd.timeout)>>)>>
    /\ pc' = AfterWait(response')
    /\ UNCHANGED <<cmd, iface, parsed, file, raised, call, ret,
                   perfVars>>

\* the rest of a dump command: no response, a response that does not
\* decode, a preset that cannot be written, or the file written
ResolveDump ==
    /\ pc = "waited"
    /\ IsDump(cmd.name)
    /\ LET decoded == DecodeFor(cmd.name, response.bytes)
           written == WriteFor(cmd.output_format, decoded.preset)
       IN  IF TimedOut(response)
           THEN /\ output' =
                       Aborted(output \o <<Line(NoReplyText(cmd.name),
                                                <<ToString(cmd.timeout)>>)>>,
                               ErrorPrefix(cmd.name), <<"">>)
                /\ raised' = "Abort"
                /\ UNCHANGED <<parsed, file>>
           ELSE IF decoded.status # "ok"
           THEN /\ parsed' = decoded
                /\ output' =
                       Aborted(output
                               \o <<Line(ParseFailedText(cmd.name),
                                         <<decoded.msg>>),
                                    Line("Raw response: ",
                                         HexWords(response.bytes))>>,
                               ErrorPrefix(cmd.name), <<"">>)
                /\ raised' = "Abort"
                /\ file' = file
           ELSE IF written.status # "ok"
           THEN /\ parsed' = decoded
                /\ output' =
                       Aborted(output \o <<Line("Failed to write file: ",
                                                <<written.msg>>)>>,
                               ErrorPrefix(cmd.name), <<"">>)
                /\ raised' = "Abort"
                /\ file' = file
           ELSE /\ parsed' = decoded
                /\ file' = [exists |-> TRUE, bytes |-> written.bytes]
                /\ output' =
                       output
                       \o <<Line("Successfully dumped",
                                 <<ToString(cmd.param)>>),
                            Line("Format: ", <<cmd.output_format>>),
                            Line("Algorithm, Feedback: ",
                                 <<ToString(decoded.preset.algorithm),
                                   ToString(decoded.preset.feedback)>>),
                            Line("LFO AMS, LFO FMS: ",
                                 <<ToString(decoded.preset.lfo_ams),
                                   ToString(decoded.preset.lfo_fms)>>)>>
                /\ raised' = raised
    /\ iface' = Closed(iface)
    /\ pc' = "done"
    /\ UNCHANGED <<cmd, inbox, events, response, call, ret,
                   perfVars>>

\* the rest of ping: no response, a response that is not the pong, or pong
ResolvePing ==
    /\ pc = "waited"
    /\ cmd.name = "ping"
    /\ IF TimedOut(response)
       THEN /\ output' =
                   Aborted(output \o <<Line(NoReplyText(cmd.name),
                                            <<ToString(cmd.timeout)>>)>>,
                           ErrorPrefix(cmd.name), <<"">>)
            /\ raised' = "Abort"
       ELSE IF ~IsPong(response.bytes)
       THEN /\ output' =
                   Aborted(output
                           \o <<Line("Unexpected response: ",
                                     HexWords(response.bytes)),
                                Line("Expected pong: F0 00 22 77 02 F7",
                                     <<>>)>>,
                           ErrorPrefix(cmd.name), <<"">>)
            /\ raised' = "Abort"
       ELSE /\ output' = output \o <<Line("Pong received!", <<>>),
                                     Line("Round-trip latency: ", <<>>)>>
            /\ raised' = raised
    /\ iface' = Closed(iface)
    /\ pc' = "done"
    /\ UNCHANGED <<cmd, inbox, events, response, parsed, file, call, ret,
                   perfVars>>

InitCommands ==
    /\ InitCommandVars
    /\ call = NoCall
    /\ ret = Raise("none")

NextCommands ==
    \/ Invoke
    \/ MidiArrives
    \/ Send
    \/ Wait
    \/ ResolveDump
    \/ ResolvePing

SpecCommands == InitCommands /\ [][NextCommands]_vars

-----------------------------------------------------------------------------
(* Inputs of the SysEx codec *)

\* an operator whose 11 fields are the distinct bytes b .. b + 10
OperatorFrom(b) ==
    FMOperator(b, b + 1, b + 2, b + 3, b + 4, b + 5, b + 6, b + 7, b + 8,
               b + 9, b + 10)

OperatorInputs == {OperatorFrom(0), OperatorFrom(1) , OperatorFrom(245),
                   FMOperator(0, 0, 0, 0, 0, 0, 0, 0, 0, 0, 0)}

ScalarInputs == {<<0, 0, 0, 0>>, <<1, 2, 3, 4>>, <<255, 254, 253, 252>>}

OperatorLists(maxLen) ==
    UNION {[1..n -> OperatorInputs] : n \in 0..maxLen}

PresetOf(scalars, operators) ==
    Preset("TFI", <<>>, scalars[1], scalars[2], scalars[3], scalars[4],
           operators)

PresetInputs ==
    {PresetOf(s, ops) : s \in ScalarInputs, ops \in OperatorLists(MaxOperatorsIn)}

\* a few presets, one for every operator count
PresetSamples ==
    {PresetOf(<<1, 2, 3, 4>>,
              SubSeq(<<OperatorFrom(1), OperatorFrom(245), OperatorFrom(0),
                       OperatorFrom(1), OperatorFrom(245)>>, 1, n)) :
        n \in 0..NUM_OPERATORS + 1}

FullPresets == {m \in PresetInputs : Len(m.operators) = NUM_OPERATORS}

ProgramInputs == (0 - ArgMargin)..(MAX_PROGRAM + ArgMargin)
ProgramSamples == {-1, 0, 5, 42, MAX_PROGRAM, MAX_PROGRAM + 1}
ChannelInputs == (0 - ArgMargin)..(MAX_CHANNEL + ArgMargin)

\* frame with extra bytes inserted ahead of its last byte
Stretch(frame, extra) ==
    SubSeq(frame, 1, Len(frame) - 1) \o extra \o <<frame[Len(frame)]>>

\* the hand-built dump response carrying the payload of a load message
AsResponse(load_message, response_cmd) ==
    ReplaceByte(load_message, 4, response_cmd)

WellFormedFrames ==
    {AsResponse(generate_preset_load(m, p).bytes, c) :
        m \in {x \in PresetSamples : Len(x.operators) = NUM_OPERATORS},
        p \in {0, 5, MAX_PROGRAM},
        c \in {DUMP_PRESET_RESPONSE_CMD, DUMP_CHANNEL_RESPONSE_CMD}}

HeaderBytes == {0, 1, 34, 119, DUMP_PRESET_RESPONSE_CMD,
                DUMP_CHANNEL_RESPONSE_CMD, SYSEX_START, SYSEX_END}

\* well-formed frames and their truncations, corruptions and extensions
FrameInputs ==
    UNION {
        {SubSeq(f, 1, n) : n \in 0..Len(f)}
        \cup {SubSeq(f, 1, n) \o <<SYSEX_END>> : n \in 0..Len(f)}
        \cup {ReplaceByte(f, i, b) : i \in 0..DATA_START, b \in HeaderBytes}
        \cup {ReplaceByte(f, Len(f) - 1, b) : b \in HeaderBytes}
        \cup {Stretch(f, Zeros(k)) : k \in 0..MaxExtra}
        : f \in WellFormedFrames}

-----------------------------------------------------------------------------
(* The SysEx codec applied to its inputs *)

InitSysEx ==
    /\ call = NoCall
    /\ ret = Raise("none")
    /\ InitCommandVars

CallGeneratePresetLoad ==
    /\ call = NoCall
    /\ \E mp \in (PresetInputs \X ProgramSamples)
                 \cup (PresetSamples \X ProgramInputs) :
        /\ call' = Called("generate_preset_load", mp[1], mp[2], <<>>)
        /\ ret' = generate_preset_load(mp[1], mp[2])

CallGenerateClearPreset ==
    /\ call = NoCall
    /\ \E p \in ProgramInputs :
        /\ call' = Called("generate_clear_preset", NoPreset, p, <<>>)
        /\ ret' = generate_clear_preset(p)

CallGenerateClearAllPresets ==
    /\ call = NoCall
    /\ call' = Called("generate_clear_all_presets", NoPreset, 0, <<>>)
    /\ ret' = generate_clear_all_presets

CallGenerateDumpPresetRequest ==
    /\ call = NoCall
    /\ \E p \in ProgramInputs :
        /\ call' = Called("generate_dump_preset_request", NoPreset, p, <<>>)
        /\ ret' = generate_dump_preset_request(p)

CallGenerateDumpChannelRequest ==
    /\ call = NoCall
    /\ \E c \in ChannelInputs :
        /\ call' = Called("generate_dump_channel_request", NoPreset, c, <<>>)
        /\ ret' = generate_dump_channel_request(c)

CallParseDumpResponse ==
    /\ call = NoCall
    /\ \E f \in FrameInputs :
        /\ call' = Called("parse_dump_response", NoPreset, 0, f)
        /\ ret' = parse_dump_response(f)

CallParseChannelDumpResponse ==
    /\ call = NoCall
    /\ \E f \in FrameInputs :
        /\ call' = Called("parse_channel_dump_response", NoPreset, 0, f)
        /\ ret' = parse_channel_dump_response(f)

\* a load message turned into a dump response by its command byte, decoded
CallDecodeLoadPayload ==
    /\ call = NoCall
    /\ \E m \in FullPresets, p \in ProgramSamples \cap 0..MAX_PROGRAM :
        LET frame == AsResponse(generate_preset_load(m, p).bytes,
                                DUMP_PRESET_RESPONSE_CMD)
        IN  /\ call' = Called("decode_load_payload", m, p, frame)
            /\ ret' = parse_dump_response(frame)

NextSysEx ==
    /\ \/ CallGeneratePresetLoad
       \/ CallGenerateClearPreset
       \/ CallGenerateClearAllPresets
       \/ CallGenerateDumpPresetRequest
       \/ CallGenerateDumpChannelRequest
       \/ CallParseDumpResponse
       \/ CallParseChannelDumpResponse
       \/ CallDecodeLoadPayload
    /\ UNCHANGED commandVars

SpecSysEx == InitSysEx /\ [][NextSysEx]_vars

-----------------------------------------------------------------------------
(* Properties of the SysEx codec *)

\* the 11 payload bytes of an operator in the order of the load message
WireOrder(op) ==
    <<op.mul, op.dt, op.ar, op.rs, op.dr, op.am, op.sl, op.sr, op.rr, op.tl,
      op.ssg>>

\* C1: for a program in 0..127 generate_preset_load returns exactly 56
\* bytes: F0 00 22 77 0A 00 p, algorithm, feedback, lfo_ams, lfo_fms, then
\* for operators 1..4 the 11 bytes mul, dt, ar, rs, dr, am, sl, sr, rr, tl,
\* ssg (11 zero bytes for an operator the preset lacks), then F7.
LoadMessageLayout ==
    (call.fn = "generate_preset_load" /\ call.arg \in 0..127) =>
        /\ ret.status = "ok"
        /\ Len(ret.bytes) = 56
        /\ SubSeq(ret.bytes, 1, 7) = <<240, 0, 34, 119, 10, 0, call.arg>>
        /\ SubSeq(ret.bytes, 8, 11) =
               <<call.preset.algorithm, call.preset.feedback,
                 call.preset.lfo_ams, call.preset.lfo_fms>>
        /\ \A k \in 1..4 :
               SubSeq(ret.bytes, 1 + 11 * k, 11 + 11 * k) =
                   IF k <= Len(call.preset.operators)
                   THEN WireOrder(call.preset.operators[k])
                   ELSE <<0, 0, 0, 0, 0, 0, 0, 0, 0, 0, 0>>
        /\ ret.bytes[56] = 247

\* a load message was generated for a preset of 2 operators
LoadMessagePadded ==
    /\ call.fn = "generate_preset_load"
    /\ call.arg = 5
    /\ Len(call.preset.operators) = 2
    /\ call.preset.operators[2].tl = 254
    /\ ret.status = "ok"
    /\ Len(ret.bytes) = 56

\* C2: decoding a load message whose command byte was replaced by 0x0E
\* gives back the algorithm, feedback, lfo_ams, lfo_fms and the 4 operators
\* of the model it was generated from.
LoadPayloadRoundTrip ==
    call.fn = "decode_load_payload" =>
        /\ call.data[5] = 14
        /\ ret.status = "ok"
        /\ ret.preset.algorithm = call.preset.algorithm
        /\ ret.preset.feedback = call.preset.feedback
        /\ ret.preset.lfo_ams = call.preset.lfo_ams
        /\ ret.preset.lfo_fms = call.preset.lfo_fms
        /\ ret.preset.operators = call.preset.operators

\* a model of 4 different operators with byte-range extremes went round
RoundTripDone ==
    /\ call.fn = "decode_load_payload"
    /\ call.arg = 127
    /\ call.preset.algorithm = 255
    /\ Cardinality({call.preset.operators[k] : k \in 1..4}) = 4
    /\ ret.status = "ok"
    /\ ret.preset.operators[2].ssg = call.preset.operators[2].ssg

\* the structural defects of a dump response for the given response command
Defective(data, response_cmd) ==
    \/ Len(data) < 56
    \/ SubSeq(data, 1, 5) # <<240, 0, 34, 119, response_cmd>>
    \/ data[6] # 0
    \/ data[Len(data)] # 247

CompletePreset(p) ==
    /\ Len(p.operators) = 4
    /\ \A k \in 1..4 : \A f \in 1..11 : WireOrder(p.operators[k])[f] \in 0..255
    /\ {p.algorithm, p.feedback, p.lfo_ams, p.lfo_fms} \subseteq 0..255

DecoderTotal(fn, response_cmd) ==
    call.fn = fn =>
        /\ ret.status \in {"ok", "PresetParseError"}
        /\ ret.status = "ok" => CompletePreset(ret.preset)
        /\ ret.status # "ok" => ret.preset = NoPreset
        /\ Defective(call.data, response_cmd) => ret.status = "PresetParseError"

\* C3: on every frame each decoder returns a complete model (4 scalars, 4
\* operators) or raises PresetParseError, and it raises PresetParseError
\* when the frame is shorter than 56 bytes, does not begin F0 00 22 77 and
\* the decoder's response command (0x0E preset, 0x10 channel), has a type
\* byte other than 0, or does not end with F7.
DecodersTotalAndStrict ==
    /\ DecoderTotal("parse_dump_response", 14)
    /\ DecoderTotal("parse_channel_dump_response", 16)

\* a 56-byte channel dump response was rejected for its last byte alone
UnterminatedFrameRejected ==
    /\ call.fn = "parse_channel_dump_response"
    /\ Len(call.data) = 56
    /\ SubSeq(call.data, 1, 6) = <<240, 0, 34, 119, 16, 0>>
    /\ call.data[56] # 247
    /\ ret.status = "PresetParseError"

\* C4: the generators taking a program raise ValueError, producing no
\* byte, for every program outside 0..127, and generate_dump_channel_request
\* for every channel outside 0..15; the boundary values succeed.
RangeEnforced ==
    /\ call.fn \in {"generate_preset_load", "generate_clear_preset",
                    "generate_dump_preset_request"} =>
           /\ call.arg \notin 0..127 =>
                  ret.status = "ValueError" /\ ret.bytes = <<>>
           /\ call.arg \in {0, 127} => ret.status = "ok"
    /\ call.fn = "generate_dump_channel_request" =>
           /\ call.arg \notin 0..15 =>
                  ret.status = "ValueError" /\ ret.bytes = <<>>
           /\ call.arg \in {0, 15} => ret.status = "ok"

\* channel 16 was refused
ChannelSixteenRefused ==
    /\ call.fn = "generate_dump_channel_request"
    /\ call.arg = 16
    /\ ret.status = "ValueError"

\* C5: for a program p in 0..127 and a channel c in 0..15 the short
\* requests are F0 00 22 77 0B 00 p F7 (clear preset), F0 00 22 77 0C 00 F7
\* (clear all), F0 00 22 77 0D 00 p F7 (dump preset request) and
\* F0 00 22 77 0F 00 c F7 (dump channel request).
ShortRequestFrames ==
    /\ (call.fn = "generate_clear_preset" /\ call.arg \in 0..127) =>
           ret = ReturnBytes(<<240, 0, 34, 119, 11, 0, call.arg, 247>>)
    /\ call.fn = "generate_clear_all_presets" =>
           ret = ReturnBytes(<<240, 0, 34, 119, 12, 0, 247>>)
    /\ (call.fn = "generate_dump_preset_request" /\ call.arg \in 0..127) =>
           ret = ReturnBytes(<<240, 0, 34, 119, 13, 0, call.arg, 247>>)
    /\ (call.fn = "generate_dump_channel_request" /\ call.arg \in 0..15) =>
           ret = ReturnBytes(<<240, 0, 34, 119, 15, 0, call.arg, 247>>)

\* the clear-all message was generated
ClearAllGenerated ==
    /\ call.fn = "generate_clear_all_presets"
    /\ Len(ret.bytes) = 7

-----------------------------------------------------------------------------
(* Properties of the commands *)

Echoed(text) == \E i \in 1..Len(output) : output[i].text = text

EchoedLine(line) == \E i \in 1..Len(output) : output[i] = line

\* the command has ended after its wait returned
Resolved == pc = "done" /\ events = <<"send", "wait">>

Succeeded == Echoed("Successfully dumped") \/ Echoed("Pong received!")

\* the endings a command shows after its wait
OutcomeTexts ==
    {"Successfully dumped", "Pong received!", NoReplyText(cmd.name),
     ParseFailedText(cmd.name), "Unexpected response: ",
     "Failed to write file: "}

\* C6: an invocation never makes a second send or a second wait and never
\* waits before it sent; once its send has returned it makes exactly one
\* wait, and it ends on the one outcome of that wait.
OneSendThenOneWait ==
    /\ events \in {<<>>, <<"send">>, <<"send", "wait">>}
    /\ Len(iface.sent_messages) <= 1
    /\ (pc = "done" /\ iface.sent_messages # <<>>) =>
           events = <<"send", "wait">>
    /\ pc \in {"sent", "waited"} => iface.sent_messages # <<>>
    /\ Resolved =>
           Cardinality({i \in 1..Len(output) :
                           output[i].text \in OutcomeTexts}) = 1

\* a channel dump sent once, waited once and wrote its file
DumpedAfterOneWait ==
    /\ cmd.name = "dump_channel"
    /\ Resolved
    /\ file.exists
    /\ iface.sent_messages = <<<<240, 0, 34, 119, 15, 0, 15, 247>>>>

HexDigitValue ==
    [c \in {"0", "1", "2", "3", "4", "5", "6", "7", "8", "9", "A", "B", "C",
            "D", "E", "F"} |->
        CASE c = "0" -> 0 [] c = "1" -> 1 [] c = "2" -> 2 [] c = "3" -> 3
          [] c = "4" -> 4 [] c = "5" -> 5 [] c = "6" -> 6 [] c = "7" -> 7
          [] c = "8" -> 8 [] c = "9" -> 9 [] c = "A" -> 10 [] c = "B" -> 11
          [] c = "C" -> 12 [] c = "D" -> 13 [] c = "E" -> 14 [] c = "F" -> 15]

\* the words are two upper-case hex digits each and spell the bytes
SpellsBytes(words, data) ==
    /\ Len(words) = Len(data)
    /\ \A i \in 1..Len(words) :
           /\ Len(words[i]) = 2
           /\ \A k \in 1..2 : words[i][k] \in DOMAIN HexDigitValue
           /\ 16 * HexDigitValue[words[i][1]] + HexDigitValue[words[i][2]]
                  = data[i]

ResponseCommandOf(name) == IF name = "dump_preset" THEN 14 ELSE 16

\* C8: when the reply to a dump does not decode, the command shows the
\* parse error and the reply's bytes unchanged as hex, writes no file and
\* reports no success.
MalformedReplyShown ==
    (IsDump(cmd.name) /\ Resolved /\ ~response.is_none
     /\ Defective(response.bytes, ResponseCommandOf(cmd.name))) =>
        /\ parsed.status = "PresetParseError"
        /\ EchoedLine(Line(ParseFailedText(cmd.name), <<parsed.msg>>))
        /\ parsed.msg # ""
        /\ \E i \in 1..Len(output) :
               /\ output[i].text = "Raw response: "
               /\ SpellsBytes(output[i].values, response.bytes)
        /\ file = NoFile
        /\ ~Succeeded
        /\ raised = "Abort"

\* a 55-byte reply without F7 was shown in hex
UnterminatedReplyShown ==
    /\ cmd.name = "dump_preset"
    /\ Resolved
    /\ Len(response.bytes) = 55
    /\ response.bytes[55] # 247
    /\ parsed.msg = "SysEx not properly terminated"
    /\ \E i \in 1..Len(output) :
           /\ output[i].text = "Raw response: "
           /\ Len(output[i].values) = 55
           /\ SubSeq(output[i].values, 1, 5) =
                  <<<<"F", "0">>, <<"0", "0">>, <<"2", "2">>, <<"7", "7">>,
                    <<"0", "E">>>>

\* C9: ping sends exactly F0 00 22 77 01 F7 and reports success if and
\* only if the reply equals F0 00 22 77 02 F7; any other reply is shown in
\* hex as an unexpected response and the command ends by click.Abort.
PingComparesLiteralPong ==
    (cmd.name = "ping" /\ Resolved) =>
        /\ iface.sent_messages = <<<<240, 0, 34, 119, 1, 247>>>>
        /\ Echoed("Pong received!") <=>
               (~response.is_none
                /\ response.bytes = <<240, 0, 34, 119, 2, 247>>)
        /\ Echoed("Pong received!") => raised = "none"
        /\ (~response.is_none /\ response.bytes # <<240, 0, 34, 119, 2, 247>>)
               => /\ \E i \in 1..Len(output) :
                        /\ output[i].text = "Unexpected response: "
                        /\ SpellsBytes(output[i].values, response.bytes)
                  /\ raised = "Abort"

\* the reply F0 00 22 77 99 F7 was reported as unexpected
WrongPongReported ==
    /\ cmd.name = "ping"
    /\ Resolved
    /\ response.bytes = <<240, 0, 34, 119, 153, 247>>
    /\ EchoedLine(Line("Unexpected response: ",
                       <<<<"F", "0">>, <<"0", "0">>, <<"2", "2">>,
                         <<"7", "7">>, <<"9", "9">>, <<"F", "7">>>>))
    /\ raised = "Abort"

-----------------------------------------------------------------------------
(* The DMP parser applied to its inputs *)

DmpVersionInputs == {0, 8, 9, 10, 11}
DmpModeInputs == {0, 1, 2}

\* 4 header bytes and 44 operator bytes, all different
DmpBodies ==
    {[i \in 1..(4 + NUM_OPERATORS * OPERATOR_BYTES) |-> 10 + i],
     [i \in 1..(4 + NUM_OPERATORS * OPERATOR_BYTES) |-> 256 - i]}

\* whole files, their truncations and files with bytes after the operators
DmpInputs ==
    UNION {
        {SubSeq(f, 1, n) : n \in 0..Len(f)}
        \cup {f \o Zeros(k) : k \in 1..MaxExtra}
        : f \in {<<v, b[1], b[2]>> \o body :
                    v \in DmpVersionInputs,
                    b \in DmpModeInputs \X DmpModeInputs,
                    body \in DmpBodies}}

InitDmp ==
    /\ call = NoCall
    /\ ret = Raise("none")
    /\ InitCommandVars

CallParseDmp ==
    /\ call = NoCall
    /\ \E d \in DmpInputs :
        LET r == parse_dmp(d, "dmp_data")
        IN  /\ call' = Called("parse_dmp", NoPreset, 0, d)
            /\ ret' = IF r.status = "ok" THEN ReturnPreset(r.dmp)
                      ELSE Raise(r.status)

CallParsePresetDmp ==
    /\ call = NoCall
    /\ \E d \in DmpInputs :
        /\ call' = Called("parse_preset", NoPreset, 0, d)
        /\ ret' = parse_preset_dmp(d)

NextDmp ==
    /\ \/ CallParseDmp
       \/ CallParsePresetDmp
    /\ UNCHANGED commandVars

SpecDmp == InitDmp /\ [][NextDmp]_vars

-----------------------------------------------------------------------------
(* The preset file codec applied to its inputs *)

\* b"WOPN2-BANK\x00", the magic of version 1 files
WOPN_LEGACY_MAGIC == <<87, 79, 80, 78, 50, 45, 66, 65, 78, 75, 0>>

DetectHeads ==
    {<<>>, WOPN_MAGIC, WOPN_LEGACY_MAGIC, DMP_MAGIC, <<0>>, <<8>>, <<9>>,
     <<10>>, <<11>>, <<8>> \o WOPN_MAGIC, ReplaceByte(WOPN_MAGIC, 10, 1)}

\* the first n bytes of head followed by zeros
Padded(head, n) == SubSeq(head \o Zeros(n), 1, n)

\* buffers of every length up to TFI_LEN + MaxExtra
DetectInputs ==
    {Padded(h, n) : h \in DetectHeads, n \in 0..(TFI_LEN + MaxExtra)}

\* TFI files with all bytes different, truncated and extended
TfiInputs ==
    {Padded([i \in 1..TFI_LEN |-> i], n) : n \in 0..(TFI_LEN + MaxExtra)}
    \cup {Padded([i \in 1..TFI_LEN |-> 256 - i], n) :
             n \in 0..(TFI_LEN + MaxExtra)}
    \cup {Padded(<<2, 0>>, TFI_LEN)}

ParseInputs == DmpInputs \cup TfiInputs

\* presets with a value that is no byte
UnwritablePresets ==
    {PresetOf(<<1, 2, 256, 4>>, [k \in 1..NUM_OPERATORS |-> OperatorFrom(k)]),
     PresetOf(<<1, 2, 3, 4>>,
              [k \in 1..NUM_OPERATORS |-> OperatorFrom(243 + k)])}

WriterInputs == PresetSamples \cup FullPresets \cup UnwritablePresets

\* the file at the output path before a writer is called
FilesBefore == {NoFile, [exists |-> TRUE, bytes |-> <<1, 2, 3>>]}

CalledOn(fn, preset, data, format_type, before) ==
    [fn |-> fn, preset |-> preset, arg |-> 0, data |-> data,
     format_type |-> format_type, before |-> before]

InitPresetFiles ==
    /\ call = NoCall
    /\ ret = Raise("none")
    /\ InitCommandVars

CallDetectPresetFormat ==
    /\ call = NoCall
    /\ \E d \in DetectInputs \cup TfiInputs :
        /\ call' = CalledOn("detect_preset_format", NoPreset, d, "", NoFile)
        /\ ret' = detect_preset_format(d)
    /\ UNCHANGED commandVars

CallParsePreset ==
    /\ call = NoCall
    /\ \E d \in ParseInputs, t \in FormatTags :
        /\ call' = CalledOn("parse_preset", NoPreset, d, t, NoFile)
        /\ ret' = parse_preset(d, t)
    /\ UNCHANGED commandVars

\* generate_preset_load(parse_preset(b, "TFI"), p)
CallLoadFromTfi ==
    /\ call = NoCall
    /\ \E d \in TfiInputs, p \in ProgramSamples :
        LET r == parse_preset(d, "TFI")
        IN  /\ call' = [CalledOn("load_from_tfi", NoPreset, d, "TFI", NoFile)
                           EXCEPT !.arg = p]
            /\ ret' = IF r.status = "ok"
                      THEN generate_preset_load(r.preset, p)
                      ELSE r
    /\ UNCHANGED commandVars

CallWriteDmpPreset ==
    /\ call = NoCall
    /\ \E m \in WriterInputs, before \in FilesBefore :
        /\ call' = CalledOn("write_dmp_preset", m, <<>>, "DMP", before)
        /\ ret' = DmpWriteOutcome(m)
        /\ file' = DmpFileAfter(m, before)
    /\ UNCHANGED <<pc, cmd, iface, inbox, events, response, parsed, output,
                   raised, perfVars>>

CallWriteTfiPreset ==
    /\ call = NoCall
    /\ \E m \in WriterInputs, before \in FilesBefore :
        /\ call' = CalledOn("write_tfi_preset", m, <<>>, "TFI", before)
        /\ ret' = TfiWriteOutcome(m)
        /\ file' = TfiFileAfter(m, before)
    /\ UNCHANGED <<pc, cmd, iface, inbox, events, response, parsed, output,
                   raised, perfVars>>

\* parse_preset(..., "DMP") of the file write_dmp_preset wrote
CallParseWrittenDmp ==
    /\ call = NoCall
    /\ \E m \in WriterInputs :
        LET w == DmpWriteOutcome(m)
            written == DmpFileAfter(m, NoFile)
        IN  /\ call' = CalledOn("parse_written_dmp", m, written.bytes, "DMP",
                                NoFile)
            /\ ret' = IF w.status = "ok"
                      THEN parse_preset(written.bytes, "DMP")
                      ELSE w
            /\ file' = written
    /\ UNCHANGED <<pc, cmd, iface, inbox, events, response, parsed, output,
                   raised, perfVars>>

\* operators with every field at its least, at its greatest, and between
RangedOperators ==
    {FMOperator(0, 0, 0, 0, 0, 0, 0, 0, 0, 0, 0),
     FMOperator(15, 7, 31, 3, 31, 1, 15, 31, 15, 127, 15),
     FMOperator(8, 3, 11, 2, 9, 1, 8, 9, 11, 46, 8),
     FMOperator(11, 6, 8, 1, 9, 0, 11, 8, 9, 87, 9)}

\* 4-operator models whose fields are inside the documented ranges
RangedPresets ==
    {Preset("", <<>>, a, fb, ams, fms, <<o1, o2, o2, o1>>) :
        a \in {0, 7}, fb \in {0, 5, 7}, ams \in {0, 3}, fms \in {0, 7},
        o1 \in RangedOperators, o2 \in RangedOperators}

\* detect_preset_format of the file write_dmp_preset or write_tfi_preset
\* wrote for a model
CallDetectWritten ==
    /\ call = NoCall
    /\ \E m \in RangedPresets, t \in {"DMP", "TFI"} :
        LET written == IF t = "DMP" THEN DmpFileAfter(m, NoFile)
                       ELSE TfiFileAfter(m, NoFile)
        IN  /\ call' = CalledOn("detect_written", m, written.bytes, t,
                                written)
            /\ ret' = detect_preset_format(written.bytes)
    /\ UNCHANGED commandVars

NextPresetFiles ==
    \/ CallDetectWritten
    \/ CallDetectPresetFormat
    \/ CallParsePreset
    \/ CallLoadFromTfi
    \/ CallWriteDmpPreset
    \/ CallWriteTfiPreset
    \/ CallParseWrittenDmp

SpecPresetFiles == InitPresetFiles /\ [][NextPresetFiles]_vars

-----------------------------------------------------------------------------
(* Properties of the DMP parser *)

\* the operator record stored at byte offset 7 + 11 * k of a DMP file
DmpRecordAt(data, k) ==
    LET at(j) == data[7 + OPERATOR_BYTES * k + j + 1]
    IN  [mul |-> at(0), tl |-> at(1), ar |-> at(2), dr |-> at(3),
         sl |-> at(4), rr |-> at(5), am |-> at(6), rs |-> at(7),
         dt |-> at(8), sr |-> at(9), ssg |-> at(10)]

\* a file of version 8 or 9 in instrument mode 1 that holds the 4 header
\* bytes and the 4 operator records
OldFmDmp(data) ==
    /\ Len(data) >= 7 + NUM_OPERATORS * OPERATOR_BYTES
    /\ data[1] \in {8, 9}
    /\ data[2] = 1

\* C10: parsing a DMP file of version 8 or 9 in instrument mode 1 takes
\* lfo_fms, feedback, algorithm, lfo_ams from bytes 3..6 and reads four
\* 11-byte records in the field order mul, tl, ar, dr, sl, rr, am, rs, dt,
\* sr, ssg; the records [A, B, C, D] of the file become the operators
\* [A, C, B, D].
DmpOldLayoutRead ==
    (call.fn \in {"parse_dmp", "parse_preset"} /\ OldFmDmp(call.data)) =>
        /\ ret.status = "ok"
        /\ ret.preset.lfo_fms = call.data[4]
        /\ ret.preset.feedback = call.data[5]
        /\ ret.preset.algorithm = call.data[6]
        /\ ret.preset.lfo_ams = call.data[7]
        /\ ret.preset.operators =
               <<DmpRecordAt(call.data, 0), DmpRecordAt(call.data, 2),
                 DmpRecordAt(call.data, 1), DmpRecordAt(call.data, 3)>>

\* a version 9 file was parsed and its third record became operator 2
DmpRecordsReordered ==
    /\ call.fn = "parse_dmp"
    /\ OldFmDmp(call.data)
    /\ call.data[1] = 9
    /\ ret.status = "ok"
    /\ Len(ret.preset.operators) = 4
    /\ ret.preset.operators[2].mul = call.data[30]
    /\ ret.preset.operators[2].mul # call.data[19]
    /\ ret.preset.operators[3].dt = call.data[27]

-----------------------------------------------------------------------------
(* Properties of the preset file codec *)

IsByte(x) == x \in 0..255

\* every scalar and every operator field of the model is a byte value
ByteValued(m) ==
    /\ IsByte(m.algorithm) /\ IsByte(m.feedback)
    /\ IsByte(m.lfo_ams) /\ IsByte(m.lfo_fms)
    /\ \A k \in 1..Len(m.operators) :
           \A i \in 1..Len(FieldNames) :
               IsByte(m.operators[k][FieldNames[i]])

\* C11: for a model m with exactly 4 operators whose fields are bytes,
\* parse_preset(..., "DMP") of the file write_dmp_preset(m) wrote returns
\* the algorithm, feedback, lfo_ams, lfo_fms and the 4 operators of m in
\* the same order; the file holds the operators [1, 3, 2, 4] of m.
DmpWriteParseRoundTrip ==
    (/\ call.fn = "parse_written_dmp"
     /\ Len(call.preset.operators) = 4
     /\ ByteValued(call.preset)) =>
        /\ ret.status = "ok"
        /\ ret.preset.format_type = "DMP"
        /\ ret.preset.algorithm = call.preset.algorithm
        /\ ret.preset.feedback = call.preset.feedback
        /\ ret.preset.lfo_ams = call.preset.lfo_ams
        /\ ret.preset.lfo_fms = call.preset.lfo_fms
        /\ ret.preset.operators = call.preset.operators
        /\ Len(file.bytes) = 51
        /\ DmpRecordAt(file.bytes, 0) = call.preset.operators[1]
        /\ DmpRecordAt(file.bytes, 1) = call.preset.operators[3]
        /\ DmpRecordAt(file.bytes, 2) = call.preset.operators[2]
        /\ DmpRecordAt(file.bytes, 3) = call.preset.operators[4]

\* a model whose operators 2 and 3 differ came back from its DMP file
DmpRoundTripDone ==
    /\ call.fn = "parse_written_dmp"
    /\ Len(call.preset.operators) = 4
    /\ call.preset.operators[2] # call.preset.operators[3]
    /\ call.preset.operators[2].mul = 245
    /\ call.preset.lfo_fms = 252
    /\ ret.status = "ok"
    /\ ret.preset.operators = call.preset.operators
    /\ ret.preset.lfo_fms = 252

\* the 10 bytes of TFI operator record i, a missing byte read as 0
TfiRecordAt(data, i) ==
    [j \in 1..10 |-> IF 2 + 10 * i + j <= Len(data)
                     THEN data[2 + 10 * i + j] ELSE 0]

\* a TFI record MUL, DT, TL, RS, AR, DR, SR, RR, SL, SSG in the order of
\* the load message: MUL, DT, AR, RS, DR, AM, SL, SR, RR, TL, SSG
TfiRecordOnWire(t) ==
    <<t[1], t[2], t[5], t[4], t[6], 0, t[9], t[7], t[8], t[3], t[10]>>

\* C12 as stated: for a 42-byte TFI buffer b and a program p in 0..127,
\* generate_preset_load(parse_preset(b, "TFI"), p) is 56 bytes, begins
\* F0 00 22 77 0A 00 p b[0] b[1] 00 00, ends F7 and carries each TFI
\* operator record rearranged as MUL, DT, AR, RS, DR, 0, SL, SR, RR, TL, SSG.
TfiLoadLayout ==
    (/\ call.fn = "load_from_tfi"
     /\ Len(call.data) = 42
     /\ call.arg \in 0..127) =>
        /\ ret.status = "ok"
        /\ Len(ret.bytes) = 56
        /\ SubSeq(ret.bytes, 1, 11) =
               <<240, 0, 34, 119, 10, 0, call.arg, call.data[1],
                 call.data[2], 0, 0>>
        /\ ret.bytes[56] = 247
        /\ \A i \in 0..3 :
               SubSeq(ret.bytes, 12 + 11 * i, 22 + 11 * i) =
                   TfiRecordOnWire(TfiRecordAt(call.data, i))

\* C13 as stated: every model parse_preset returns has exactly 4
\* operators, also for a DMP file whose instrument mode is not FM.
ParsedModelsHaveFourOperators ==
    (call.fn = "parse_preset" /\ ret.status = "ok") =>
        Len(ret.preset.operators) = 4

\* the first Len(prefix) bytes of data are prefix
HasPrefix(data, prefix) ==
    /\ Len(data) >= Len(prefix)
    /\ \A i \in 1..Len(prefix) : data[i] = prefix[i]

\* "WOPN2-B2NK\0" and at least one byte after it
WopnSigned(data) ==
    /\ HasPrefix(data, <<87, 79, 80, 78, 50, 45, 66, 50, 78, 75, 0>>)
    /\ Len(data) > 11

\* ".DMP"
DmpSigned(data) == HasPrefix(data, <<46, 68, 77, 80>>)

VersionFirst(data) == Len(data) > 0 /\ data[1] \in {8, 9, 11}

WopnMagicAnyLength ==
    (/\ call.fn = "detect_preset_format"
     /\ HasPrefix(call.data, <<87, 79, 80, 78, 50, 45, 66, 50, 78, 75, 0>>))
        => (ret.status = "ok" /\ ret.tag = "WOPN")

\* C16 as stated: a buffer that starts with the legacy magic
\* "WOPN2-BANK\0" is detected as WOPN.
LegacyWopnMagicDetected ==
    (/\ call.fn = "detect_preset_format"
     /\ HasPrefix(call.data, <<87, 79, 80, 78, 50, 45, 66, 65, 78, 75, 0>>))
        => (ret.status = "ok" /\ ret.tag = "WOPN")

\* C17: detect_preset_format returns one of TFI, DMP, WOPN, UNKNOWN for
\* every buffer, the empty one included, without raising or indexing past
\* the end; the tag is a function of the bytes alone, and 42 zero bytes
\* give TFI.
DetectTotalAndDeterministic ==
    call.fn = "detect_preset_format" =>
        /\ ret.status = "ok"
        /\ ret.tag \in {"TFI", "DMP", "WOPN", "UNKNOWN"}
        /\ ret.tag = detect_preset_format(call.data).tag
        /\ (Len(call.data) = 42 /\ \A i \in 1..42 : call.data[i] = 0) =>
               ret.tag = "TFI"
        /\ call.data = <<>> => ret.tag = "UNKNOWN"

\* the empty buffer was detected as UNKNOWN
EmptyBufferUnknown ==
    /\ call.fn = "detect_preset_format"
    /\ call.data = <<>>
    /\ ret.status = "ok"
    /\ ret.tag = "UNKNOWN"

\* the operator a TFI record MUL, DT, TL, RS, AR, DR, SR, RR, SL, SSG holds
TfiRecordOperator(t) ==
    [mul |-> t[1], dt |-> t[2], tl |-> t[3], rs |-> t[4], ar |-> t[5],
     dr |-> t[6], sr |-> t[7], rr |-> t[8], sl |-> t[9], ssg |-> t[10],
     am |-> 0]

\* C18 as stated: parse_preset(b, "TFI") on a buffer shorter than 42 bytes
\* does not raise; it returns a TFI preset with exactly 4 operators in
\* which every field whose source byte is missing is 0.
ShortTfiZeroPadded ==
    (/\ call.fn = "parse_preset"
     /\ call.format_type = "TFI"
     /\ Len(call.data) < 42) =>
        /\ ret.status = "ok"
        /\ ret.preset.format_type = "TFI"
        /\ Len(ret.preset.operators) = 4
        /\ \A i \in 0..3 :
               ret.preset.operators[i + 1] =
                   TfiRecordOperator(TfiRecordAt(call.data, i))

\* C19 as stated: when parse_preset fails, on malformed or truncated input
\* or on an unsupported format tag, it fails with PresetParseError and with
\* no other exception.
OnlyPresetParseErrorEscapes ==
    call.fn = "parse_preset" => ret.status \in {"ok", "PresetParseError"}

\* C20: write_dmp_preset and write_tfi_preset raise ValueError, not
\* PresetParseError, when the model has fewer than 4 operators, and then
\* the output file is as it was before the call: not created, not
\* truncated, not modified.
WritersRefuseShortModels ==
    (/\ call.fn \in {"write_dmp_preset", "write_tfi_preset"}
     /\ Len(call.preset.operators) < 4) =>
        /\ ret.status = "ValueError"
        /\ ret.status # "PresetParseError"
        /\ file = call.before

\* a 3-operator model was refused and the existing file kept its bytes
ExistingFileKept ==
    /\ call.fn = "write_dmp_preset"
    /\ Len(call.preset.operators) = 3
    /\ call.before = [exists |-> TRUE, bytes |-> <<1, 2, 3>>]
    /\ ret.status = "ValueError"
    /\ file = [exists |-> TRUE, bytes |-> <<1, 2, 3>>]

-----------------------------------------------------------------------------
(* The WOPN parser applied to its inputs *)

\* byte o of the n-th instrument record of a file: a name of three letters,
\* a key offset and a percussion key, the two packed bytes with their
\* padding bits set, four operator records that differ from each other, and
\* the delay bytes
WopnInstrumentByte(n, o) ==
    IF o < 3 THEN 65 + ((n + o) % 26)
    ELSE IF o < WOPN_INSTRUMENT_BYTES - 5 THEN 0
    ELSE IF o < WOPN_INSTRUMENT_BYTES - 2 THEN (n + o) % 256
    ELSE IF o < WOPN_INSTRUMENT_BYTES THEN (n * 37 + o * 11 + 192) % 256
    ELSE IF o < WopnInstrumentNeeded THEN (n * 29 + o * 17 + 5) % 256
    ELSE 255

WopnBankRecord(b) ==
    <<66, 48 + b>> \o Zeros(WOPN_BANK_NAME_BYTES - 2) \o <<0, b>>

\* a bank file: the magic, the version field when there is one, the counts,
\* the bank records and 128 instrument records for each bank
WopnFile(magic, version, m, p) ==
    magic \o version \o <<m \div 256, m % 256, p \div 256, p % 256, 9>>
    \o Flatten([b \in 1..(m + p) |-> WopnBankRecord(b - 1)])
    \o [i \in 1..((m + p) * INSTRUMENTS_PER_BANK * WopnInstrumentSize) |->
           WopnInstrumentByte((i - 1) \div WopnInstrumentSize,
                              (i - 1) % WopnInstrumentSize)]

DropLast(data, n) == SubSeq(data, 1, Len(data) - n)

WopnVersion2 == <<2, 0>>

WopnFiles ==
    {WopnFile(WOPN_MAGIC, WopnVersion2, m, p) :
        m \in 0..MaxWopnBanks, p \in 0..1}
    \cup {DropLast(WopnFile(WOPN_MAGIC, WopnVersion2, 1, 0), n) :
            n \in {WOPN_DELAY_BYTES, WOPN_DELAY_BYTES + 1}}
    \cup {WopnFile(WOPN_MAGIC, <<1, 0>>, 1, 0),
          WopnFile(WOPN_LEGACY_MAGIC, <<>>, 1, 0),
          SubSeq(WOPN_MAGIC, 1, WOPN_MAGIC_BYTES - 1)}

BankIndexInputs == (-MaxWopnBanks - 1)..(MaxWopnBanks + 1)

InstrumentIndexInputs ==
    {-INSTRUMENTS_PER_BANK - 1, -INSTRUMENTS_PER_BANK, -1, 0, 1, 2,
     INSTRUMENTS_PER_BANK - 2, INSTRUMENTS_PER_BANK - 1,
     INSTRUMENTS_PER_BANK, INSTRUMENTS_PER_BANK + 1}

BankTypes == {"melody", "percussion"}

WopnCall(data, bank, instrument, bank_type) ==
    [fn |-> "parse_preset", preset |-> NoPreset, arg |-> 0, data |-> data,
     format_type |-> "WOPN", bank |-> bank, instrument |-> instrument,
     bank_type |-> bank_type]

InitWopn ==
    /\ call = NoCall
    /\ ret = Raise("none")
    /\ InitCommandVars

\* parse_preset(data, "WOPN", bank=b, instrument=i, bank_type=t)
CallParsePresetWopn ==
    /\ call = NoCall
    /\ \E d \in WopnFiles, b \in BankIndexInputs,
          i \in InstrumentIndexInputs, t \in BankTypes :
        /\ call' = WopnCall(d, b, i, t)
        /\ ret' = parse_preset_wopn(d, b, i, t)
    /\ UNCHANGED commandVars

NextWopn == CallParsePresetWopn

SpecWopn == InitWopn /\ [][NextWopn]_vars

-----------------------------------------------------------------------------
(* Properties of the WOPN parser *)

WopnLoaded == call.fn = "parse_preset" /\ call.format_type = "WOPN"

\* the banks of the selected type in the called file, and where the
\* instrument records of that type start
WopnBanksOfType(c) ==
    LET l == WopnLayout(c.data)
    IN  IF c.bank_type = "melody" THEN l.m_bank_count ELSE l.p_bank_count

WopnRecordsBefore(c) ==
    LET l == WopnLayout(c.data)
    IN  IF c.bank_type = "melody" THEN 0 ELSE l.m_bank_count

\* where instrument record slot of bank number bank of the selected type
\* starts in the called file
WopnInstrumentAt(c, bank, slot) ==
    LET l == WopnLayout(c.data)
    IN  l.banksAt + (l.m_bank_count + l.p_bank_count) * WOPN_BANK_BYTES
        + ((WopnRecordsBefore(c) + bank) * INSTRUMENTS_PER_BANK + slot)
          * WopnInstrumentSize

\* the r-th 7-byte operator record (from 0) of the instrument record at
\* `at`, as the model's operator
WopnRecordOnDisk(data, at, r) ==
    LET b(i) == data[at + WOPN_INSTRUMENT_BYTES + WOPN_OPERATOR_BYTES * r
                     + i + 1]
    IN  FMOperator(b(0) % 16, (b(0) \div 16) % 8, b(2) % 32, b(2) \div 64,
                   b(3) % 32, b(3) \div 128, b(5) \div 16, b(4) % 32,
                   b(5) % 16, b(1) % 128, b(6) % 16)

WopnInRange(c) ==
    /\ c.bank \in 0..(WopnBanksOfType(c) - 1)
    /\ c.instrument \in 0..(INSTRUMENTS_PER_BANK - 1)

\* C21: the four operator records of a WOPN instrument, stored in the
\* order 1, 3, 2, 4, are loaded as logical operators 1, 2, 3, 4: the second
\* record read becomes operator 3 and the third becomes operator 2
WopnOperatorsReindexed ==
    (WopnLoaded /\ ret.status = "ok" /\ WopnInRange(call)) =>
        LET at == WopnInstrumentAt(call, call.bank, call.instrument)
            ops == ret.preset.operators
        IN  /\ Len(ops) = NUM_OPERATORS
            /\ ops[1] = WopnRecordOnDisk(call.data, at, 0)
            /\ ops[3] = WopnRecordOnDisk(call.data, at, 1)
            /\ ops[2] = WopnRecordOnDisk(call.data, at, 2)
            /\ ops[4] = WopnRecordOnDisk(call.data, at, 3)

\* an instrument of the second bank was loaded whose second and third
\* records differ
WopnSwapSeen ==
    /\ WopnLoaded
    /\ ret.status = "ok"
    /\ WopnInRange(call)
    /\ call.bank = 1
    /\ call.instrument > 0
    /\ ret.preset.operators[2] # ret.preset.operators[3]
    /\ ret.preset.operators[3] =
           WopnRecordOnDisk(call.data,
                            WopnInstrumentAt(call, call.bank,
                                             call.instrument), 1)

\* the called file is one parse_wopn reads to its end
WopnReadable == WopnLoaded /\ ret.status # "bitstruct.Error"

\* C22: parse_preset of a WOPN file raises PresetParseError for every bank
\* index outside 0..banks-1 and every instrument index outside 0..127, and
\* for indices inside the ranges returns the instrument in exactly that
\* bank and slot
WopnIndicesRangeChecked ==
    WopnReadable =>
        IF WopnInRange(call)
        THEN /\ ret.status = "ok"
             /\ ret.preset.operators[1] =
                    WopnRecordOnDisk(call.data,
                                     WopnInstrumentAt(call, call.bank,
                                                      call.instrument), 0)
        ELSE ret.status = "PresetParseError"

\* what the code does check: indices inside the ranges select that
\* bank and slot, and indices at or above the counts raise PresetParseError
WopnUpperBoundsChecked ==
    WopnReadable =>
        /\ WopnInRange(call) =>
              /\ ret.status = "ok"
              /\ ret.preset.operators[1] =
                     WopnRecordOnDisk(call.data,
                                      WopnInstrumentAt(call, call.bank,
                                                       call.instrument), 0)
        /\ (\/ call.bank >= WopnBanksOfType(call)
            \/ call.bank >= 0 /\ call.instrument >= INSTRUMENTS_PER_BANK)
               => ret.status = "PresetParseError"

\* a negative bank index selected a bank from the end of the list
WopnNegativeBankLoaded ==
    /\ WopnReadable
    /\ call.bank = -1
    /\ call.instrument = 0
    /\ ret.status = "ok"
    /\ ret.preset.operators[1] =
           WopnRecordOnDisk(call.data,
                            WopnInstrumentAt(call,
                                             WopnBanksOfType(call) - 1, 0),
                            0)

\* a negative index below the length of the list raised IndexError
WopnNegativeIndexError ==
    /\ WopnReadable
    /\ call.bank < 0
    /\ ret.status = "IndexError"

-----------------------------------------------------------------------------
(* Commands: load-preset, clear-preset, clear-all-presets *)

\* click.confirm(prompt, abort=True) that goes on whatever the answer
ConfirmIgnored(answer) == "started"

\* click.confirm(prompt, abort=True): only an answer of yes goes on, any
\* other answer (no, the empty default, end of input) raises click.Abort
ConfirmAbort(answer) == IF answer = "y" THEN "started" ELSE "done"

ConfirmAnswers == {"y", "n", "", "eof"}

\* the files load-preset is given: a DMP file, 42 zero bytes, and bytes of
\* no known format
LoadFiles ==
    {write_dmp_preset(PresetOf(<<1, 2, 3, 4>>,
                               [k \in 1..NUM_OPERATORS |-> OperatorFrom(k)])
                      ).bytes,
     Zeros(TFI_LEN), <<0, 1, 2>>}

SenderInputs ==
    {[name |-> "load_preset", param |-> p, fake |-> f, confirm |-> TRUE,
      data |-> d] :
        p \in {0, 5, MAX_PROGRAM}, f \in BOOLEAN, d \in LoadFiles}
    \cup
    {[name |-> "clear_preset", param |-> p, fake |-> f, confirm |-> TRUE,
      data |-> <<>>] :
        p \in {0, 1, 5, 64, MAX_PROGRAM}, f \in BOOLEAN}
    \cup
    {[name |-> "clear_all_presets", param |-> 0, fake |-> f, confirm |-> c,
      data |-> <<>>] :
        f \in BOOLEAN, c \in BOOLEAN}

\* the message the command builds before it opens the interface, or the
\* exception of building it
MessageOf(c) ==
    LET format_type == detect_preset_format(c.data).tag
        preset == parse_preset(c.data, format_type)
    IN  CASE c.name = "clear_preset" -> generate_clear_preset(c.param)
          [] c.name = "clear_all_presets" -> generate_clear_all_presets
          [] OTHER ->
              IF format_type = "UNKNOWN" THEN Raise("Abort")
              ELSE IF preset.status # "ok" THEN preset
              ELSE generate_preset_load(preset.preset, c.param)

SuccessText(name) ==
    CASE name = "clear_preset" -> "Successfully cleared preset"
      [] name = "clear_all_presets" -> "Successfully cleared all presets"
      [] OTHER -> "Successfully loaded"

\* the command starts; clear-all-presets without --confirm asks first
InvokeSender ==
    /\ pc = "idle"
    /\ \E c \in SenderInputs :
        /\ cmd' = c
        /\ pc' = IF c.name = "clear_all_presets" /\ ~c.confirm
                 THEN "prompted" ELSE "started"
    /\ UNCHANGED <<iface, inbox, events, response, parsed, output, file,
                   raised, call, ret,
                   perfVars>>

\* the answer to "This will clear ALL user presets. Continue?"
Confirm ==
    /\ pc = "prompted"
    /\ \E answer \in ConfirmAnswers :
        /\ events' = Append(events, "answer " \o answer)
        /\ pc' = ConfirmAbort(answer)
        /\ raised' = IF ConfirmAbort(answer) = "done" THEN "Abort"
                     ELSE raised
    /\ UNCHANGED <<cmd, iface, inbox, response, parsed, output, file, call,
                   ret,
                   perfVars>>

\* the message is built and the interface constructed: FakeMIDIInterface()
\* on --fake, else MIDIInterface(port), which raises for a port not found
Open ==
    /\ pc = "started"
    /\ LET m == MessageOf(cmd)
       IN  \E port_found \in BOOLEAN :
            /\ cmd.fake => port_found
            /\ IF m.status # "ok"
               THEN /\ output' =
                           Aborted(IF m.status = "Abort"
                                   THEN <<Line("Error: Unsupported preset format",
                                               <<>>)>>
                                   ELSE <<>>,
                                   "Error: ", <<m.msg>>)
                    /\ raised' = "Abort"
                    /\ pc' = "done"
                    /\ iface' = iface
               ELSE IF ~port_found
               THEN /\ output' = Aborted(<<>>, "Error: ",
                                         <<"MIDI port not found">>)
                    /\ raised' = "Abort"
                    /\ pc' = "done"
                    /\ iface' = iface
               ELSE /\ iface' = OpenInterface(cmd.fake, FALSE)
                    /\ pc' = "ready"
                    /\ UNCHANGED <<output, raised>>
    /\ UNCHANGED <<cmd, inbox, events, response, parsed, file, call, ret,
                   perfVars>>

\* interface.send_sysex(sysex_data), the success line, and the end of the
\* command: the interface is left as it is
SendOnly ==
    /\ pc = "ready"
    /\ events' = Append(events, "send")
    /\ \E send_fails \in BOOLEAN :
        /\ send_fails => iface.kind = "mido"
        /\ IF send_fails
           THEN /\ output' = Aborted(output, "Error: ", <<"send failed">>)
                /\ raised' = "Abort"
                /\ iface' = iface
           ELSE /\ iface' =
                    [iface EXCEPT !.sent_messages =
                        Append(@, IF iface.kind = "mido"
                                  THEN MidoSysexFrame(MessageOf(cmd).bytes)
                                  ELSE MessageOf(cmd).bytes)]
                /\ output' = output \o <<Line(SuccessText(cmd.name),
                                              <<ToString(cmd.param)>>)>>
                /\ raised' = raised
    /\ pc' = "done"
    /\ UNCHANGED <<cmd, inbox, response, parsed, file, call, ret,
                   perfVars>>

NextSenders ==
    \/ InvokeSender
    \/ Confirm
    \/ Open
    \/ SendOnly

SpecSenders == InitCommands /\ [][NextSenders]_vars

-----------------------------------------------------------------------------
(* Properties of load-preset, clear-preset and clear-all-presets *)

Obtained == iface.kind # "none"

\* C23: every command invocation that obtained a transport has closed it
\* exactly once when it ends, on success and on every failure after the
\* transport was obtained
TransportClosedOnce ==
    (pc = "done" /\ Obtained) => iface.closed = 1

Answered(a) == \E i \in 1..Len(events) : events[i] = "answer " \o a

Declined == \E a \in ConfirmAnswers \ {"y"} : Answered(a)

\* C24: clear-all-presets sends the clear-all message only after --confirm
\* or an answer of yes to the prompt; when the user declines, nothing is
\* sent and the command ends with a non-zero status
ClearAllNeedsConfirmation ==
    cmd.name = "clear_all_presets" =>
        /\ ("send" \in {events[i] : i \in 1..Len(events)}) =>
               cmd.confirm \/ Answered("y")
        /\ iface.sent_messages # <<>> =>
               /\ cmd.confirm \/ Answered("y")
               /\ iface.sent_messages
                      \in {<<generate_clear_all_presets.bytes>>,
                           <<MidoSysexFrame(generate_clear_all_presets.bytes)>>}
        /\ Declined =>
               /\ pc = "done"
               /\ raised = "Abort"
               /\ ~Obtained
               /\ iface.sent_messages = <<>>
        /\ (pc = "done" /\ raised = "none") =>
               /\ Len(iface.sent_messages) = 1
               /\ cmd.confirm \/ Answered("y")

\* the user declined and the command ended
ClearAllDeclined ==
    cmd.name = "clear_all_presets" /\ Answered("n") /\ pc = "done"

-----------------------------------------------------------------------------
(* Properties of the dump commands: correlation of request and reply *)

DumpWritten == IsDump(cmd.name) /\ pc = "done" /\ file.exists

\* the reply a dump command wrote to its file carries the requested number
\* at byte 6
DumpReplyMatchesRequest ==
    DumpWritten => Len(response.bytes) > 6 /\ response.bytes[7] = cmd.param

\* a wait of a dump command that returns a frame which was pending before
\* the request was sent
StaleFrameReturned ==
    /\ pc = "sent"
    /\ pc' = "waited"
    /\ IsDump(cmd.name)
    /\ iface.kind = "mido"
    /\ ~response'.is_none
    /\ inbox[FirstSysex(inbox)].early

NoStaleFrameReturned == [][~StaleFrameReturned]_vars

-----------------------------------------------------------------------------
(* Properties of the commands: errors of the transport *)

Shown(text) == \E i \in 1..Len(output) : output[i].text = text

\* the output port raised while the request was sent
SendFailed == pc = "done" /\ Obtained /\ events = <<"send">>

\* the input port raised while it was polled
PollFailed == Shown(PollErrorText)

\* C26: an error raised by the transport while sending or polling is
\* propagated as an error of the command and is never turned into "no
\* data" or a timeout
TransportErrorsPropagate ==
    /\ SendFailed =>
           /\ raised = "Abort"
           /\ output[Len(output)] =
                  Line(ErrorPrefix(cmd.name), <<"send failed">>)
    /\ (PollFailed /\ pc = "done") =>
           /\ raised = "Abort"
           /\ ~Shown(NoReplyText(cmd.name))

\* what the code keeps of it: an error of sending aborts the command with
\* its message
SendErrorsPropagate ==
    SendFailed =>
        /\ raised = "Abort"
        /\ output[Len(output)] =
               Line(ErrorPrefix(cmd.name), <<"send failed">>)

\* a poll that raised was reported as a reply that never came
PollErrorShownAsTimeout ==
    pc = "done" /\ PollFailed /\ Shown(NoReplyText(cmd.name))

-----------------------------------------------------------------------------
(* Floats of perf-test: Python floats are IEEE-754 doubles; the values here
   are multiples of 2^-60 below 16, held exactly as 64 bits, and every
   result is rounded to 53 significant bits, to nearest, ties to even *)

DOUBLE_SIGNIFICAND_BITS == 53

\* the float whose 16 hexadecimal digits, highest first, are given
HexFloat(digits) ==
    [i \in 1..64 |->
        (digits[16 - ((i - 1) \div 4)] \div (2 ^ ((i - 1) % 4))) % 2]

\* the bits from position i on of a + b + carry, appended to acc
RECURSIVE SumFrom(_, _, _, _, _)
SumFrom(a, b, i, carry, acc) ==
    IF i > 64 THEN acc
    ELSE SumFrom(a, b, i + 1, (a[i] + b[i] + carry) \div 2,
                 Append(acc, (a[i] + b[i] + carry) % 2))

\* a + b exactly
ExactSum(a, b) == SumFrom(a, b, 1, 0, <<>>)

\* a - b exactly, for a >= b: a plus the complement of b plus one
ExactDifference(a, b) ==
    SumFrom(a, [i \in 1..64 |-> 1 - b[i]], 1, 1, <<>>)

\* the highest bit of x that is set, at or below position i; 0 if none
RECURSIVE HighBitFrom(_, _)
HighBitFrom(x, i) ==
    IF i = 0 THEN 0 ELSE IF x[i] = 1 THEN i ELSE HighBitFrom(x, i - 1)

HighBit(x) == HighBitFrom(x, 64)

\* x with its lowest `cut` bits dropped, rounded to nearest, ties to even
RoundAt(x, cut) ==
    IF cut <= 0 THEN x
    ELSE IF x[cut] = 1
            /\ (x[cut + 1] = 1 \/ \E i \in 1..(cut - 1) : x[i] = 1)
    THEN ExactSum([i \in 1..64 |-> IF i <= cut THEN 0 ELSE x[i]],
                  [i \in 1..64 |-> IF i = cut + 1 THEN 1 ELSE 0])
    ELSE [i \in 1..64 |-> IF i <= cut THEN 0 ELSE x[i]]

\* the double nearest to x, the even one of two equally near
RoundToDouble(x) == RoundAt(x, HighBit(x) - DOUBLE_SIGNIFICAND_BITS)

FloatAdd(a, b) == RoundToDouble(ExactSum(a, b))
FloatSub(a, b) == RoundToDouble(ExactDifference(a, b))

\* a >= b
FloatGeq(a, b) ==
    \/ \A i \in 1..64 : a[i] = b[i]
    \/ \E i \in 1..64 :
          /\ a[i] = 1
          /\ b[i] = 0
          /\ \A j \in (i + 1)..64 : a[j] = b[j]

\* bool(x) of a float, and of None, which is held as zero
Truthy(x) == x # FloatZero

-----------------------------------------------------------------------------
(* Command: perf-test.  time.time and time.sleep are a clock that advances
   only when the command sleeps; the progress line and the PNG of the
   histogram are not part of the output held here *)

F_0_05 == HexFloat(<<0, 0, 12, 12, 12, 12, 12, 12, 12, 12, 12, 12, 12, 12, 13, 0>>)
F_0_1 == HexFloat(<<0, 1, 9, 9, 9, 9, 9, 9, 9, 9, 9, 9, 9, 9, 10, 0>>)
F_0_125 == HexFloat(<<0, 2, 0, 0, 0, 0, 0, 0, 0, 0, 0, 0, 0, 0, 0, 0>>)
F_0_2 == HexFloat(<<0, 3, 3, 3, 3, 3, 3, 3, 3, 3, 3, 3, 3, 3, 4, 0>>)
F_0_25 == HexFloat(<<0, 4, 0, 0, 0, 0, 0, 0, 0, 0, 0, 0, 0, 0, 0, 0>>)
F_0_3 == HexFloat(<<0, 4, 12, 12, 12, 12, 12, 12, 12, 12, 12, 12, 12, 12, 12, 0>>)
F_0_5 == HexFloat(<<0, 8, 0, 0, 0, 0, 0, 0, 0, 0, 0, 0, 0, 0, 0, 0>>)
F_0_8 == HexFloat(<<0, 12, 12, 12, 12, 12, 12, 12, 12, 12, 12, 12, 12, 13, 0, 0>>)
F_1_0 == HexFloat(<<1, 0, 0, 0, 0, 0, 0, 0, 0, 0, 0, 0, 0, 0, 0, 0>>)

\* --duration and --interval; no --duration is None
DurationsAndIntervals ==
    {<<F_0_5, F_0_1>>, <<F_0_3, F_0_05>>, <<F_0_2, F_0_05>>,
     <<F_0_8, F_0_1>>, <<F_1_0, F_0_1>>, <<F_0_25, F_0_125>>,
     <<F_0_3, F_0_1>>, <<FloatZero, F_0_1>>}

PerfInputs ==
    {[name |-> "perf_test", duration |-> di[1], interval |-> di[2],
      timeout |-> 2, dry_run |-> TRUE] : di \in DurationsAndIntervals}
    \cup
    {[name |-> "perf_test", duration |-> F_0_2, interval |-> F_0_1,
      timeout |-> t, dry_run |-> FALSE] : t \in {0, 2}}

PerfErrorPrefix == "Error during performance test: "

\* `(time.time() - perf.start_time) > duration`
DurationPassed(elapsed, duration) ==
    FloatGeq(elapsed, duration) /\ elapsed # duration

\* `(time.time() - perf.start_time) >= duration`
DurationReached(elapsed, duration) == FloatGeq(elapsed, duration)

\* `while perf.running` and the test of the duration at the top of the loop
LoopEnds ==
    \/ ~perf.running
    \/ /\ Truthy(cmd.duration)
       /\ DurationReached(FloatSub(clock, perf.start_time), cmd.duration)

\* a failed ping that is not counted
CountFailureNever(failed, ok) == failed

\* `else: failed_pings += 1`
CountFailure(failed, ok) == IF ok THEN failed ELSE failed + 1

\* the command starts and obtains its transport
InvokePerfTest ==
    /\ pc = "idle"
    /\ \E c \in PerfInputs, port_found \in BOOLEAN, has_input \in BOOLEAN,
          mocked \in BOOLEAN :
        /\ c.dry_run => port_found /\ has_input
        /\ mocked => c.dry_run
        /\ cmd' = c
        /\ IF port_found
           THEN /\ iface' = [OpenInterface(c.dry_run, has_input) EXCEPT
                                !.kind = IF mocked THEN "mock" ELSE @]
                /\ output' =
                       <<Line("Starting performance test on", <<>>),
                         Line(IF Truthy(c.duration) THEN "Test duration: "
                              ELSE "Test duration: until Ctrl+C", <<>>),
                         Line("Starting test...", <<>>)>>
                /\ perf' = [perf EXCEPT !.start_time = clock]
                /\ pc' = "perf_loop"
                /\ raised' = raised
           ELSE /\ iface' = NoInterface
                /\ output' = Aborted(output, PerfErrorPrefix,
                                     <<"MIDI port not found">>)
                /\ raised' = "Abort"
                /\ perf' = perf
                /\ pc' = "done"
    /\ UNCHANGED <<inbox, events, response, parsed, file, call, ret,
                   failed_pings, clock>>

\* Ctrl+C: signal_handler calls perf.stop()
Sigint ==
    /\ pc \in {"perf_loop", "perf_sent"}
    /\ perf.running
    /\ perf' = [perf EXCEPT !.running = FALSE]
    /\ UNCHANGED <<pc, cmd, iface, inbox, events, response, parsed, output,
                   file, raised, call, ret, failed_pings, clock>>

\* a message reaches the open input port while the command waits
PerfMidiArrives ==
    /\ pc = "perf_sent"
    /\ iface.kind = "mido"
    /\ iface.has_input
    /\ Len(inbox) < MaxInbox
    /\ \E m \in DeviceMessages :
        inbox' = Append(inbox, [type |-> m.type, data |-> m.data,
                                early |-> FALSE])
    /\ UNCHANGED <<pc, cmd, iface, events, response, parsed, output, file,
                   raised, call, ret, perfVars>>

\* the loop goes on: interface.send_sysex(ping_message)
PerfSendPing ==
    /\ pc = "perf_loop"
    /\ ~LoopEnds
    /\ Len(iface.sent_messages) < MaxPings
    /\ events' = Append(events, "send")
    /\ \E send_fails \in BOOLEAN :
        /\ send_fails => iface.kind = "mido"
        /\ IF send_fails
           THEN /\ iface' = Closed(iface)
                /\ output' = Aborted(output, PerfErrorPrefix,
                                     <<"send failed">>)
                /\ raised' = "Abort"
                /\ pc' = "done"
           ELSE /\ iface' =
                    [iface EXCEPT !.sent_messages =
                        Append(@, IF iface.kind = "mido"
                                  THEN MidoSysexFrame(PING_MESSAGE)
                                  ELSE PING_MESSAGE)]
                /\ UNCHANGED <<output, raised>>
                /\ pc' = "perf_sent"
    /\ UNCHANGED <<cmd, inbox, response, parsed, file, call, ret, perfVars>>

\* the rest of the iteration: interface.wait_for_sysex(timeout), the reply
\* compared with expected_pong, the latency or the failure recorded, and
\* time.sleep(interval)
PerfWaitPong ==
    /\ pc = "perf_sent"
    /\ events' = Append(events, "wait")
    /\ \/ /\ iface.kind = "fake"
          /\ response' =
                 FakeWaitForSysex(iface.simulate_pong, iface.sent_messages)
          /\ UNCHANGED <<inbox, output>>
       \/ /\ iface.kind = "mido"
          /\ \E poll_fails \in BOOLEAN :
                /\ response' = MidoWaitForSysex(iface.has_input, cmd.timeout,
                                                poll_fails, inbox)
                /\ inbox' = MidoPendingAfterWait(iface.has_input, cmd.timeout,
                                                 poll_fails, inbox)
                /\ output' = output \o MidoWaitPrints(iface.has_input,
                                                      cmd.timeout, poll_fails)
       \/ /\ iface.kind = "mock"
          /\ \E r \in {None, Some(EXPECTED_PONG),
                       Some(<<240, 0, 34, 119, 2, 0, 247>>)} : response' = r
          /\ UNCHANGED <<inbox, output>>
    /\ LET ok == ~response'.is_none /\ IsPong(response'.bytes)
       IN  /\ perf' = [perf EXCEPT !.latencies =
                          IF ok THEN Append(@, FloatSub(clock, clock)) ELSE @]
           /\ failed_pings' = CountFailure(failed_pings, ok)
    /\ clock' = FloatAdd(clock, cmd.interval)
    /\ pc' = "perf_loop"
    /\ UNCHANGED <<cmd, iface, parsed, file, raised, call, ret>>

\* the loop is left: the final report, and `finally: interface.close()`
PerfReport ==
    /\ pc = "perf_loop"
    /\ LoopEnds
    /\ output' =
           output
           \o <<Line("Performance Test Complete", <<>>),
                Line("Total pings sent: ",
                     <<ToString(Len(perf.latencies) + failed_pings)>>),
                Line("Successful pings: ", <<ToString(Len(perf.latencies))>>),
                Line("Failed pings: ", <<ToString(failed_pings)>>),
                Line(IF Len(perf.latencies) > 0 THEN "Histogram saved to: "
                     ELSE "No successful pings recorded", <<>>)>>
    /\ iface' = Closed(iface)
    /\ pc' = "done"
    /\ UNCHANGED <<cmd, inbox, events, response, parsed, file, raised, call,
                   ret, perfVars>>

NextPerfTest ==
    \/ InvokePerfTest
    \/ Sigint
    \/ PerfMidiArrives
    \/ PerfSendPing
    \/ PerfWaitPong
    \/ PerfReport

SpecPerfTest == InitCommands /\ [][NextPerfTest]_vars

-----------------------------------------------------------------------------
(* Properties of perf-test *)

PingsSent == Len(iface.sent_messages)

\* the loop was left and the report printed
NormalEnd == cmd.name = "perf_test" /\ pc = "done" /\ raised = "none"

\* sends and waits alternate, every finished iteration is counted once as a
\* latency or as a failure, and at the normal end of the loop the pings
\* sent are the latencies recorded plus the failed pings
PerfIterationsCounted ==
    cmd.name = "perf_test" =>
        /\ \A i \in 1..Len(events) :
               events[i] = IF i % 2 = 1 THEN "send" ELSE "wait"
        /\ Len(perf.latencies) + failed_pings = Len(events) \div 2
        /\ raised = "none" => PingsSent = (Len(events) + 1) \div 2
        /\ NormalEnd =>
               /\ PingsSent = Len(perf.latencies) + failed_pings
               /\ \E i \in 1..Len(output) :
                      output[i] = Line("Total pings sent: ",
                                       <<ToString(PingsSent)>>)

\* the step of an iteration that waits: the ping is a success exactly when
\* the reply is the literal pong, and a failure otherwise
PongDecides ==
    (pc = "perf_sent" /\ pc' = "perf_loop") =>
        /\ events' = Append(events, "wait")
        /\ iface'.sent_messages = iface.sent_messages
        /\ IF response' = Some(EXPECTED_PONG)
           THEN /\ Len(perf'.latencies) = Len(perf.latencies) + 1
                /\ failed_pings' = failed_pings
           ELSE /\ perf'.latencies = perf.latencies
                /\ failed_pings' = failed_pings + 1

\* C27: every iteration of perf-test's loop sends exactly one ping and does
\* exactly one wait, counted as a success iff the reply equals the literal
\* pong and as a failure otherwise; at the normal end of the loop the
\* pings sent equal the latencies recorded plus the failed pings
PerfEveryPingCounted ==
    /\ []PerfIterationsCounted
    /\ [][PongDecides]_vars

\* a run ended normally with successes and failures
PerfMixedRunEnded ==
    /\ NormalEnd
    /\ Len(perf.latencies) >= 2
    /\ failed_pings >= 2
    /\ PingsSent = Len(perf.latencies) + failed_pings

\* the sleeps of interval after which a clock at t, having slept n times,
\* first reads duration or more
RECURSIVE SleepsFrom(_, _, _, _)
SleepsFrom(t, n, duration, interval) ==
    IF FloatGeq(t, duration) \/ n > MaxPings THEN n
    ELSE SleepsFrom(FloatAdd(t, interval), n + 1, duration, interval)

\* the least n at or above m with n times interval, exactly, at least
\* duration, given that m times interval is x: ceil(duration / interval)
RECURSIVE CeilFrom(_, _, _, _)
CeilFrom(x, m, duration, interval) ==
    IF FloatGeq(x, duration) \/ m > MaxPings THEN m
    ELSE CeilFrom(ExactSum(x, interval), m + 1, duration, interval)

PerfSettings == {<<c.duration, c.interval>> : c \in PerfInputs}

\* for every duration and interval explored: the sleeps until the clock
\* reads the duration, and ceil(duration / interval)
PingCounts ==
    [di \in PerfSettings |->
        [sleeps |-> SleepsFrom(FloatZero, 0, di[1], di[2]),
         ceil |-> CeilFrom(FloatZero, 0, di[1], di[2])]]

SleepsUntil(duration, interval) == PingCounts[<<duration, interval>>].sleeps

CeilOfQuotient(duration, interval) == PingCounts[<<duration, interval>>].ceil

\* a run with a duration that ended because the duration was reached
RanToDuration == NormalEnd /\ perf.running /\ Truthy(cmd.duration)

-----------------------------------------------------------------------------
(* Properties of the preset file codec: written files and detection *)

\* C29: for a 4-operator model with its fields inside the documented
\* ranges, the file write_dmp_preset writes is detected as DMP, and the
\* file write_tfi_preset writes is exactly 42 bytes and is detected as TFI
WrittenFilesDetected ==
    call.fn = "detect_written" =>
        /\ call.before.exists
        /\ ret.status = "ok"
        /\ ret.tag = call.format_type
        /\ call.format_type = "TFI" => Len(call.data) = TFI_LEN

\* a TFI file was written for a model whose operator bytes spell the DMP
\* signature, and was detected as TFI
WrittenTfiDetected ==
    /\ call.fn = "detect_written"
    /\ call.format_type = "TFI"
    /\ call.preset.algorithm = 7
    /\ call.preset.operators[1].tl = 46
    /\ Len(call.data) = TFI_LEN
    /\ ret.tag = "TFI"

-----------------------------------------------------------------------------
(* The fake transport of fake_midi_interface.py *)

\* FakeMidiInterface._generate_fm_parameters: algorithm, feedback, lfo_ams
\* and lfo_fms of a seed
_generate_fm_parameters(seed) ==
    <<seed % 8, (seed * 3) % 8, seed % 4, (seed * 5) % 8>>

\* FakeMidiInterface._generate_operators: the 44 operator bytes of a seed
_generate_operators(seed) ==
    Flatten([k \in 1..NUM_OPERATORS |->
        LET op_num == k - 1
            base == (seed + op_num * 20) % 128
        IN  <<1 + (base % 15), base % 8, 20 + (base % 12), base % 4,
              8 + (base % 12), base % 2, base % 16, base % 16,
              5 + (base % 12), (base % 48) + (op_num * 12),
              IF base % 4 = 0 THEN 0 ELSE 8 + (base % 8)>>])

\* FakeMidiInterface._generate_preset_dump_response: None for a request
\* shorter than 8 bytes
_generate_preset_dump_response(request_msg) ==
    IF Len(request_msg) < 8 THEN None
    ELSE LET preset_type == request_msg[6]
             program == request_msg[7]
         IN  Some(<<SYSEX_START, 0, 34, 119, DUMP_PRESET_RESPONSE_CMD,
                    preset_type, program>>
                  \o _generate_fm_parameters(program)
                  \o _generate_operators(program)
                  \o <<SYSEX_END>>)

\* FakeMidiInterface._generate_channel_dump_response
_generate_channel_dump_response(request_msg) ==
    IF Len(request_msg) < 8 THEN None
    ELSE LET preset_type == request_msg[6]
             midi_channel == request_msg[7]
         IN  Some(<<SYSEX_START, 0, 34, 119, DUMP_CHANNEL_RESPONSE_CMD,
                    preset_type, midi_channel>>
                  \o _generate_fm_parameters(midi_channel)
                  \o _generate_operators(midi_channel)
                  \o <<SYSEX_END>>)

\* FakeMidiInterface.wait_for_sysex: the reply to the message sent last
FakeMidiInterfaceWaitForSysex(simulate_pong, sent_messages) ==
    LET last_msg == sent_messages[Len(sent_messages)]
    IN  IF ~simulate_pong THEN None
        ELSE IF sent_messages = <<>> \/ Len(last_msg) < 6 THEN None
        ELSE IF last_msg[1] # SYSEX_START
                \/ Slice(last_msg, 1, 4) # <<0, 34, 119>>
                \/ last_msg[Len(last_msg)] # SYSEX_END
        THEN None
        ELSE IF last_msg[5] = PING_CMD THEN Some(EXPECTED_PONG)
        ELSE IF last_msg[5] = DUMP_PRESET_CMD
        THEN _generate_preset_dump_response(last_msg)
        ELSE IF last_msg[5] = DUMP_CHANNEL_CMD
        THEN _generate_channel_dump_response(last_msg)
        ELSE None

\* a decoder handed what wait_for_sysex returned: len(None) is a TypeError
DecodeReply(reply, channel) ==
    IF reply.is_none THEN Raise("TypeError")
    ELSE IF channel THEN parse_channel_dump_response(reply.bytes)
    ELSE parse_dump_response(reply.bytes)

-----------------------------------------------------------------------------
(* The fake transport applied to the dump requests of the generator *)

FakeCall(fn, request, reply) ==
    [fn |-> fn, preset |-> NoPreset, arg |-> request[7],
     data |-> request, reply |-> reply]

InitFake ==
    /\ call = NoCall
    /\ ret = Raise("none")
    /\ InitCommandVars

\* a new FakeMidiInterface is sent the preset dump request of a program,
\* and its reply is decoded by parse_dump_response
FakeDumpPreset ==
    /\ call = NoCall
    /\ \E program \in 0..127 :
        LET request == generate_dump_preset_request(program).bytes
            reply == FakeMidiInterfaceWaitForSysex(TRUE, <<request>>)
        IN  /\ call' = FakeCall("dump_preset", request, reply)
            /\ ret' = DecodeReply(reply, FALSE)
    /\ UNCHANGED commandVars

\* the same for the channel dump request of a MIDI channel and
\* parse_channel_dump_response
FakeDumpChannel ==
    /\ call = NoCall
    /\ \E midi_channel \in 0..15 :
        LET request == generate_dump_channel_request(midi_channel).bytes
            reply == FakeMidiInterfaceWaitForSysex(TRUE, <<request>>)
        IN  /\ call' = FakeCall("dump_channel", request, reply)
            /\ ret' = DecodeReply(reply, TRUE)
    /\ UNCHANGED commandVars

NextFake ==
    \/ FakeDumpPreset
    \/ FakeDumpChannel

SpecFake == InitFake /\ [][NextFake]_vars

-----------------------------------------------------------------------------
(* Properties of the fake transport *)

FakeDumped == call.fn \in {"dump_preset", "dump_channel"}

\* the documented ranges of the fields of a model
OperatorInRange(op) ==
    /\ op.mul \in 0..15
    /\ op.dt \in 0..7
    /\ op.ar \in 0..31
    /\ op.dr \in 0..31
    /\ op.sr \in 0..31
    /\ op.rs \in 0..3
    /\ op.am \in 0..1
    /\ op.sl \in 0..15
    /\ op.rr \in 0..15
    /\ op.ssg \in 0..15
    /\ op.tl \in 0..127

PresetInRange(p) ==
    /\ p.algorithm \in 0..7
    /\ p.feedback \in 0..7
    /\ p.lfo_ams \in 0..3
    /\ p.lfo_fms \in 0..7
    /\ \A i \in 1..Len(p.operators) : OperatorInRange(p.operators[i])

\* the reply of the fake transport is accepted by the matching decoder and
\* carries the requested program or channel at byte 6
FakeReplyAccepted ==
    FakeDumped =>
        /\ ~call.reply.is_none
        /\ ret.status = "ok"
        /\ Len(ret.preset.operators) = NUM_OPERATORS
        /\ call.reply.bytes[7] = call.arg

\* C30: for every program 0..127 and every channel 0..15, the reply of the
\* fake transport to the generator's dump request is accepted by the
\* matching decoder, carries the program or channel at byte 6, and decodes
\* to a model whose every field lies in its documented range
FakeDumpsDecodeInRange ==
    FakeDumped =>
        /\ ~call.reply.is_none
        /\ ret.status = "ok"
        /\ call.reply.bytes[7] = call.arg
        /\ PresetInRange(ret.preset)

\* the decoded model of the fake preset dump has a release rate of 16
FakeReleaseRateSixteen ==
    /\ call.fn = "dump_preset"
    /\ ret.status = "ok"
    /\ \E i \in 1..Len(ret.preset.operators) : ret.preset.operators[i].rr = 16

\* every field but rr of the decoded model lies in its documented range,
\* and rr lies in 5..16
FakeDumpsInRangeButReleaseRate ==
    FakeDumped =>
        /\ ret.status = "ok"
        /\ PresetInRange(
              [ret.preset EXCEPT !.operators =
                  [i \in 1..Len(ret.preset.operators) |->
                      [ret.preset.operators[i] EXCEPT !.rr = 0]]])
        /\ \A i \in 1..Len(ret.preset.operators) :
              ret.preset.operators[i].rr \in 5..16

====
